---- MODULE Spec2Model ----
(***************************************************************************)
(* The derived-metrics scoring engine of the vendor dashboard              *)
(* (apps/frontend/src/lib/utils.ts) and its weather-intelligence companion *)
(* (apps/frontend/src/lib/dynamicWeatherIntelligence.ts).                  *)
(* The data-fetch layer in front of them (lib/api.ts, App) is modelled as  *)
(* far as the mock-mode flag and the overview queries go.                  *)
(*                                                                         *)
(* A VendorOverview is the record the data-fetch layer hands to the        *)
(* engine.  Numbers are JavaScript doubles in the source; the model keeps  *)
(* them exact in fixed units:                                              *)
(*   market_cap, ebitda : integer multiples of $100M (1 unit = 1e8 USD,    *)
(*                        so "marketCapB > 5" reads market_cap > 50)       *)
(*   pe_ratio           : tenths (14.9 is 149)                             *)
(* Quotients are kept as exact fractions [n, d] and compared without       *)
(* rounding.  A name is a string of the table NameKeywords, which lists    *)
(* the keywords that name.toLowerCase().includes(..) finds in it.          *)
(***************************************************************************)
EXTENDS Integers, Sequences, FiniteSets, TLC

VARIABLES
  vendor,        \* the vendor record of the current row
  op,            \* the function called last
  result,        \* what that call returned
  sectorTag,     \* the sector argument of the weather functions
  industryTag,   \* the industry argument of the weather functions
  currentMonth,  \* new Date().getMonth() + 1
  currentYear,   \* new Date().getFullYear()
  vendors,       \* the vendor collection of the weather panel
  draws,         \* how many times the last call called Math.random()
  useMockData,   \* the global mock-mode flag of lib/api.ts
  activeTickers  \* the tickers of the dashboard, in the order they were added

\* What a call reads and never writes.
inputs == <<vendor, sectorTag, industryTag, currentMonth, currentYear, vendors>>

\* The state of the data-fetch layer, which the engine neither reads nor writes.
dataLayer == <<useMockData, activeTickers>>

vars ==
  <<vendor, op, result, sectorTag, industryTag, currentMonth, currentYear, vendors, draws,
    useMockData, activeTickers>>

(***************************************************************************)
(* Bounds of the input grid: the largest market cap, EBITDA and P/E drawn. *)
(***************************************************************************)
MaxCap == 1001
MaxEbitda == 201
MaxPe == 501

\* Sampled market caps ($100M): zero, between the 1B and 2B size steps, at 5B,
\* and above 20B, 50B and 100B.
CapValues == {0, 11, 19, 50, 356, 501, MaxCap}

\* Sampled EBITDA ($100M): negative, zero and above 0.1B, 1B, 2B, 5B, 10B.
EbitdaValues == {-20, 0, 2, 11, 41, 51, MaxEbitda}

\* Sampled P/E (tenths): the sentinel 0, below 10, around 15, above 40, around 50.
PeValues == {0, 99, 149, 150, 401, 500, MaxPe}

Symbols == {"DD", "CE", "TEL", "st", "ACME"}

\* symbol.toUpperCase()
toUpperCase(s) ==
  CASE s = "st" -> "ST"
    [] s = "dd" -> "DD"
    [] s = "aapl" -> "AAPL"
    [] OTHER -> s

\* The keywords of the engine's rules that each lower-cased name contains.
NameKeywords ==
  [n \in {"DuPont de Nemours Inc", "TE Connectivity Ltd", "STMicroelectronics N.V.",
          "Solar Power Technology Farm",
          "Oil Energy Transport Technology", "Industrial Chemical Insurance",
          "Retail Property Manufacturing Data",
          "Celanese Corporation", "LyondellBasell Industries N.V.", "Acme Holdings",
          "Grid Power Utility", "Atlas Aviation Group", "Harbor Shipping Lines",
          "Summit Construction Co", "Beacon Insurance Group",
          "Precision Manufacturing Corp"} |->
     CASE n = "DuPont de Nemours Inc" -> {"dupont"}
       [] n = "TE Connectivity Ltd" -> {"connectivity"}
       [] n = "STMicroelectronics N.V." -> {}
       [] n = "Solar Power Technology Farm" -> {"solar", "power", "technology", "farm"}
       [] n = "Oil Energy Transport Technology" ->
            {"oil", "energy", "transport", "technology"}
       [] n = "Industrial Chemical Insurance" -> {"industrial", "chemical", "insurance"}
       [] n = "Retail Property Manufacturing Data" ->
            {"retail", "property", "manufacturing", "data"}
       [] n = "Celanese Corporation" -> {"celanese"}
       [] n = "LyondellBasell Industries N.V." -> {"lyondell"}
       [] n = "Acme Holdings" -> {}
       [] n = "Grid Power Utility" -> {"power", "utility"}
       [] n = "Atlas Aviation Group" -> {"aviation"}
       [] n = "Harbor Shipping Lines" -> {"shipping"}
       [] n = "Summit Construction Co" -> {"construction"}
       [] n = "Beacon Insurance Group" -> {"insurance"}
       [] n = "Precision Manufacturing Corp" -> {"manufacturing"}]

Names == DOMAIN NameKeywords

\* vendor.name.toLowerCase().includes(kw)
includes(name, kw) == kw \in NameKeywords[name]

VendorOverview ==
  [symbol : Symbols, name : Names, market_cap : CapValues,
   pe_ratio : PeValues, ebitda : EbitdaValues]

-----------------------------------------------------------------------------
(* getContractReadiness *)

\* A plausible slip: the 20B and 50B steps swapped (>50 gives 30, >20 gives 35).
SizeComponentSwapped(v) ==
  IF v.market_cap > 1000 THEN 40
  ELSE IF v.market_cap > 500 THEN 30
  ELSE IF v.market_cap > 200 THEN 35
  ELSE IF v.market_cap > 100 THEN 25
  ELSE IF v.market_cap > 50 THEN 20
  ELSE IF v.market_cap > 20 THEN 15
  ELSE IF v.market_cap > 10 THEN 10
  ELSE 5

\* Size component: stepped thresholds on marketCapB.
SizeComponent(v) ==
  IF v.market_cap > 1000 THEN 40
  ELSE IF v.market_cap > 500 THEN 35
  ELSE IF v.market_cap > 200 THEN 30
  ELSE IF v.market_cap > 100 THEN 25
  ELSE IF v.market_cap > 50 THEN 20
  ELSE IF v.market_cap > 20 THEN 15
  ELSE IF v.market_cap > 10 THEN 10
  ELSE 5

\* Profitability component: stepped thresholds on ebitdaB.
ProfitabilityComponent(v) ==
  IF v.ebitda > 100 THEN 40
  ELSE IF v.ebitda > 50 THEN 35
  ELSE IF v.ebitda > 20 THEN 30
  ELSE IF v.ebitda > 10 THEN 25
  ELSE IF v.ebitda > 5 THEN 20
  ELSE IF v.ebitda > 1 THEN 15
  ELSE IF v.ebitda > 0 THEN 10
  ELSE 0

\* ebitdaMargin > pct/100, where ebitdaMargin = ebitda > 0 ? ebitda / market_cap : 0
\* (market_cap = 0 with ebitda > 0 gives Infinity, which exceeds every threshold).
MarginAbove(v, pct) == v.ebitda > 0 /\ v.ebitda * 100 > pct * v.market_cap

\* Efficiency component: stepped thresholds on ebitdaMargin.
EfficiencyComponent(v) ==
  IF MarginAbove(v, 15) THEN 20
  ELSE IF MarginAbove(v, 10) THEN 16
  ELSE IF MarginAbove(v, 7) THEN 12
  ELSE IF MarginAbove(v, 5) THEN 8
  ELSE IF MarginAbove(v, 2) THEN 4
  ELSE 0

\* P/E bonus or penalty.
PeAdjustment(v) ==
  IF v.pe_ratio > 0
  THEN IF v.pe_ratio < 150 THEN 5
       ELSE IF v.pe_ratio > 500 THEN -5
       ELSE 0
  ELSE 0

\* strengthScore just before the grade is assigned.
strengthScore(v) ==
  SizeComponent(v) + ProfitabilityComponent(v) + EfficiencyComponent(v) + PeAdjustment(v)

\* A plausible slip: the A+ band opened at 80 instead of 85.
GradeOfScoreAPlusAtEighty(s) ==
  IF s >= 80 THEN [score |-> "A+", label |-> "Fortune 500 Ready",
                   color |-> "text-emerald-700 bg-emerald-100"]
  ELSE IF s >= 75 THEN [score |-> "A", label |-> "Enterprise Target",
                        color |-> "text-green-700 bg-green-100"]
  ELSE IF s >= 60 THEN [score |-> "A-", label |-> "Large Corporate",
                        color |-> "text-blue-700 bg-blue-100"]
  ELSE IF s >= 45 THEN [score |-> "B+", label |-> "Mid-Market Prime",
                        color |-> "text-indigo-700 bg-indigo-100"]
  ELSE IF s >= 30 THEN [score |-> "B", label |-> "Growth Company",
                        color |-> "text-amber-700 bg-amber-100"]
  ELSE IF s >= 20 THEN [score |-> "B-", label |-> "Emerging Player",
                        color |-> "text-orange-700 bg-orange-100"]
  ELSE [score |-> "C", label |-> "Startup/Distressed",
        color |-> "text-slate-600 bg-slate-100"]

\* The grade bands of strengthScore.
GradeOfScore(s) ==
  IF s >= 85 THEN [score |-> "A+", label |-> "Fortune 500 Ready",
                   color |-> "text-emerald-700 bg-emerald-100"]
  ELSE IF s >= 75 THEN [score |-> "A", label |-> "Enterprise Target",
                        color |-> "text-green-700 bg-green-100"]
  ELSE IF s >= 60 THEN [score |-> "A-", label |-> "Large Corporate",
                        color |-> "text-blue-700 bg-blue-100"]
  ELSE IF s >= 45 THEN [score |-> "B+", label |-> "Mid-Market Prime",
                        color |-> "text-indigo-700 bg-indigo-100"]
  ELSE IF s >= 30 THEN [score |-> "B", label |-> "Growth Company",
                        color |-> "text-amber-700 bg-amber-100"]
  ELSE IF s >= 20 THEN [score |-> "B-", label |-> "Emerging Player",
                        color |-> "text-orange-700 bg-orange-100"]
  ELSE [score |-> "C", label |-> "Startup/Distressed",
        color |-> "text-slate-600 bg-slate-100"]

getContractReadiness(v) == GradeOfScore(strengthScore(v))

-----------------------------------------------------------------------------
(* getWeatherExposure *)

\* The conditions of the else-if chain, in source order.
BaseRuleMatches(v) ==
  LET name == v.name
      symbol == toUpperCase(v.symbol)
  IN <<
    \/ includes(name, "agriculture") \/ includes(name, "farm") \/ includes(name, "crop")
    \/ includes(name, "renewable") \/ includes(name, "solar")
    \/ includes(name, "wind energy"),
    \/ includes(name, "utility") \/ includes(name, "power") \/ includes(name, "electric")
    \/ (includes(name, "energy") /\ ~includes(name, "oil")),
    \/ includes(name, "aviation") \/ includes(name, "airline") \/ includes(name, "airport"),
    \/ includes(name, "shipping") \/ includes(name, "marine") \/ includes(name, "logistics")
    \/ (includes(name, "transport") /\ ~includes(name, "technology")),
    \/ includes(name, "construction") \/ includes(name, "infrastructure")
    \/ includes(name, "materials") \/ includes(name, "concrete"),
    \/ includes(name, "chemical") \/ includes(name, "specialty")
    \/ includes(name, "industrial")
    \/ symbol = "DD" \/ symbol = "CE" \/ symbol = "LYB",
    \/ includes(name, "retail") \/ includes(name, "consumer")
    \/ includes(name, "restaurant"),
    \/ includes(name, "insurance") \/ includes(name, "property"),
    \/ includes(name, "manufacturing") \/ includes(name, "industrial"),
    \/ includes(name, "technology") \/ includes(name, "software") \/ includes(name, "data")
    \/ includes(name, "telecom") \/ includes(name, "connectivity")
    \/ symbol = "TEL" \/ symbol = "ST" >>

\* What each branch of the chain adds to exposureScore, in source order.
BaseRulePoints == <<80, 75, 70, 60, 55, 50, 40, 45, 35, 25>>

RECURSIVE SumMatching(_, _)
SumMatching(m, i) ==
  IF i = 0 THEN 0
  ELSE (IF m[i] THEN BaseRulePoints[i] ELSE 0) + SumMatching(m, i - 1)

\* A plausible slip: independent ifs instead of the else-if chain, so every
\* matching rule adds its points.
BaseComponentEveryMatch(v) == SumMatching(BaseRuleMatches(v), Len(BaseRulePoints))

\* A plausible slip: independent ifs that assign the points, so the last
\* matching rule wins.
LastMatch(m) ==
  IF \E i \in 1..Len(m) : m[i]
  THEN CHOOSE i \in 1..Len(m) : m[i] /\ \A j \in (i + 1)..Len(m) : ~m[j]
  ELSE 0

\* The branch of an else-if chain that is taken, given its conditions m in
\* order: the first that holds (0 when none does).
FirstMatch(m) ==
  IF \E i \in 1..Len(m) : m[i]
  THEN CHOOSE i \in 1..Len(m) : m[i] /\ \A j \in 1..(i - 1) : ~m[j]
  ELSE 0

\* What branch i of the chain adds (nothing when no branch is taken).
PointsOfBranch(i) == IF i = 0 THEN 0 ELSE BaseRulePoints[i]

BaseComponent(v) == PointsOfBranch(FirstMatch(BaseRuleMatches(v)))

\* Size multiplier on marketCapB.
ExposureSizeBonus(v) ==
  IF v.market_cap > 500 THEN 10
  ELSE IF v.market_cap > 200 THEN 7
  ELSE IF v.market_cap > 50 THEN 5
  ELSE 0

\* P/E volatility bonus.
ExposurePeBonus(v) ==
  IF v.pe_ratio > 250 THEN 5
  ELSE IF v.pe_ratio < 100 /\ v.pe_ratio > 0 THEN 3
  ELSE 0

\* exposureScore just before the level is assigned.
exposureScore(v) == BaseComponent(v) + ExposureSizeBonus(v) + ExposurePeBonus(v)

\* The level bands of exposureScore.
LevelOfScore(s) ==
  IF s >= 70 THEN [level |-> "Critical", sectors |-> "Core Target",
                   color |-> "text-red-700 bg-red-100"]
  ELSE IF s >= 55 THEN [level |-> "High", sectors |-> "Priority Sector",
                        color |-> "text-red-600 bg-red-50"]
  ELSE IF s >= 40 THEN [level |-> "Medium", sectors |-> "Strategic Value",
                        color |-> "text-amber-700 bg-amber-100"]
  ELSE IF s >= 25 THEN [level |-> "Data Buyer", sectors |-> "Tech Partner",
                        color |-> "text-blue-700 bg-blue-100"]
  ELSE IF s >= 15 THEN [level |-> "Indirect", sectors |-> "Future Prospect",
                        color |-> "text-indigo-600 bg-indigo-50"]
  ELSE [level |-> "Minimal", sectors |-> "Low Priority",
        color |-> "text-slate-600 bg-slate-100"]

getWeatherExposure(v) == LevelOfScore(exposureScore(v))

-----------------------------------------------------------------------------
(* formatCurrency, formatNumber *)

\* n / d rounded to the nearest integer, halves away from zero (n >= 0, d > 0):
\* the rounding of toLocaleString.
RoundDiv(n, d) == (2 * n + d) \div (2 * d)

\* formatCurrency on a value in $100M units, as the pieces of the string:
\* <<prefix, the number shown in tenths, suffix>>.
formatCurrency(value) ==
  IF value = 0 THEN <<"$0">>
  ELSE IF value >= 10000 THEN <<"$", RoundDiv(value, 1000), "T">>
  ELSE IF value >= 10 THEN <<"$", value, "B">>
  ELSE IF value >= 1 THEN <<"$", value * 1000, "M">>
  ELSE <<"-$", (0 - value) * 10, "e8">>

\* formatNumber(n / d, 1): the quotient shown with one decimal, in tenths.
formatNumber1(n, d) == IF n = 0 THEN 0 ELSE RoundDiv(10 * n, d)

-----------------------------------------------------------------------------
(* getSalesOpportunity *)

extractContractScore(grade) ==
  CASE grade = "A+" -> 95
    [] grade = "A" -> 85
    [] grade = "A-" -> 75
    [] grade = "B+" -> 65
    [] grade = "B" -> 55
    [] grade = "B-" -> 45
    [] grade = "C" -> 25
    [] OTHER -> 35

\* exposureLevel.toLowerCase()
toLowerCase(level) ==
  CASE level = "Critical" -> "critical"
    [] level = "High" -> "high"
    [] level = "Medium" -> "medium"
    [] level = "Data Buyer" -> "data buyer"
    [] level = "Indirect" -> "indirect"
    [] level = "Minimal" -> "minimal"

\* A plausible slip: 40 points for Medium instead of 35.
ExposureLevelPointsMediumForty(level) ==
  CASE level = "Critical" -> 50
    [] level = "High" -> 45
    [] level = "Medium" -> 40
    [] level = "Data Buyer" -> 30
    [] level = "Indirect" -> 20
    [] OTHER -> 10

\* The switch on exposureLevel.
ExposureLevelPoints(level) ==
  CASE level = "Critical" -> 50
    [] level = "High" -> 45
    [] level = "Medium" -> 35
    [] level = "Data Buyer" -> 30
    [] level = "Indirect" -> 20
    [] OTHER -> 10

\* Deal size potential on marketCapB.
DealSizeBonus(v) ==
  IF v.market_cap > 1000 THEN 10
  ELSE IF v.market_cap > 500 THEN 8
  ELSE IF v.market_cap > 200 THEN 6
  ELSE IF v.market_cap > 100 THEN 4
  ELSE IF v.market_cap > 50 THEN 2
  ELSE 0

\* Urgency factor.
UrgencyBonus(v) ==
  IF v.pe_ratio = 0 /\ v.ebitda < 0 THEN 5
  ELSE IF v.pe_ratio > 400 THEN 3
  ELSE 0

\* opportunityScore before the strategic multipliers, in hundredths
\* (contractScore * 0.35 is contractScore * 35).
OpportunitySum(v, contractScore, exposureLevel) ==
  100 * ExposureLevelPoints(exposureLevel) + 35 * contractScore
  + 100 * DealSizeBonus(v) + 100 * UrgencyBonus(v)

\* A plausible slip: > 75 instead of >= 75, which leaves grade A- out.
PerfectFitMultiplierAboveOnly(contractScore, exposureLevel) ==
  IF exposureLevel = "Critical" /\ contractScore > 75 THEN 115 ELSE 100

\* The two strategic multipliers, in hundredths (1.15 is 115, 1.10 is 110).
PerfectFitMultiplier(contractScore, exposureLevel) ==
  IF exposureLevel = "Critical" /\ contractScore >= 75 THEN 115 ELSE 100

LargeSensitiveMultiplier(v, exposureLevel) ==
  IF v.market_cap > 500 /\ (exposureLevel = "High" \/ exposureLevel = "Critical")
  THEN 110 ELSE 100

\* opportunityScore just before the priority is assigned, in millionths,
\* from contractScore and exposureLevel.
OpportunityScoreOf(v, contractScore, exposureLevel) ==
  OpportunitySum(v, contractScore, exposureLevel)
  * PerfectFitMultiplier(contractScore, exposureLevel)
  * LargeSensitiveMultiplier(v, exposureLevel)

opportunityScore(v) ==
  OpportunityScoreOf(v, extractContractScore(getContractReadiness(v).score),
                     getWeatherExposure(v).level)

\* A plausible slip: the Platinum reason names the vendor.
SalesReasonWithSymbol(v, priority) == <<v.symbol, "exposure">>

\* The templated reason string of each priority band, as its pieces.
ReasonOf(v, priority, contractReadiness, level) ==
  CASE priority = "Platinum" ->
         <<formatCurrency(v.market_cap), toLowerCase(level), "exposure">>
    [] priority = "Hot" -> <<contractReadiness.label, "+", level, "need">>
    [] priority = "Warm" ->
         <<contractReadiness.score, "financials,", toLowerCase(level), "sector">>
    [] priority = "Qualified" ->
         <<IF v.ebitda > 10 THEN "Profitable" ELSE "Growing",
           toLowerCase(level), "prospect">>
    [] priority = "Nurture" ->
         <<"Future potential as", toLowerCase(level), "grows">>
    [] priority = "Monitor" -> <<"Limited current fit">>
    [] OTHER -> <<"Low priority - minimal weather exposure">>

SalesReason(v, priority) ==
  ReasonOf(v, priority, getContractReadiness(v), getWeatherExposure(v).level)

\* The priority bands of opportunityScore (in millionths).
PriorityOfScore(s) ==
  IF s >= 85000000 THEN "Platinum"
  ELSE IF s >= 75000000 THEN "Hot"
  ELSE IF s >= 60000000 THEN "Warm"
  ELSE IF s >= 45000000 THEN "Qualified"
  ELSE IF s >= 30000000 THEN "Nurture"
  ELSE IF s >= 20000000 THEN "Monitor"
  ELSE "Cold"

SalesPriority(v) == PriorityOfScore(opportunityScore(v))

SalesColor(priority) ==
  CASE priority = "Platinum" -> "text-purple-700 bg-purple-100"
    [] priority = "Hot" -> "text-red-700 bg-red-100"
    [] priority = "Warm" -> "text-orange-700 bg-orange-100"
    [] priority = "Qualified" -> "text-blue-700 bg-blue-100"
    [] priority = "Nurture" -> "text-indigo-600 bg-indigo-100"
    [] priority = "Monitor" -> "text-amber-600 bg-amber-50"
    [] OTHER -> "text-slate-600 bg-slate-100"

\* The object returned for a priority band.
SalesResult(v, priority) ==
  [priority |-> priority, reason |-> SalesReason(v, priority),
   color |-> SalesColor(priority)]

getSalesOpportunity(v) == SalesResult(v, SalesPriority(v))

-----------------------------------------------------------------------------
(* getFinancialAlerts *)

\* A plausible slip: the yield threshold 0.10 instead of 0.12.
HighYieldTenPercent(v) ==
  v.ebitda > 0 /\ v.market_cap > 0 /\ v.ebitda * 100 > 10 * v.market_cap

\* ebitdaYield > 0.12, computed only when ebitda > 0 and market_cap > 0.
HighYield(v) == v.ebitda > 0 /\ v.market_cap > 0 /\ v.ebitda * 100 > 12 * v.market_cap

\* A plausible slip: the no-P/E alert skipped once negative EBITDA is flagged.
AlertConditionsNoPeOnlyIfProfitable(v) ==
  << v.ebitda < 0,
     v.pe_ratio > 500 /\ v.pe_ratio > 0,
     v.pe_ratio > 0 /\ v.pe_ratio < 150 /\ v.ebitda > 10,
     v.market_cap < 50,
     v.market_cap > 500 /\ v.ebitda > 50,
     HighYield(v),
     v.pe_ratio = 0 /\ ~(v.ebitda < 0) >>

\* A plausible slip: the value-opportunity rule without its P/E > 0 guard,
\* so that a vendor without P/E data counts as a value stock.
AlertConditionsValueWithoutPe(v) ==
  << v.ebitda < 0,
     v.pe_ratio > 500 /\ v.pe_ratio > 0,
     v.pe_ratio < 150 /\ v.ebitda > 10,
     v.market_cap < 50,
     v.market_cap > 500 /\ v.ebitda > 50,
     HighYield(v),
     v.pe_ratio = 0 >>

\* The conditions of the seven if statements, in source order.
AlertConditions(v) ==
  << v.ebitda < 0,
     v.pe_ratio > 500 /\ v.pe_ratio > 0,
     v.pe_ratio > 0 /\ v.pe_ratio < 150 /\ v.ebitda > 10,
     v.market_cap < 50,
     v.market_cap > 500 /\ v.ebitda > 50,
     HighYield(v),
     v.pe_ratio = 0 >>

\* The alert each if statement pushes, in source order.  An id is the pieces
\* of `${vendor.symbol}-<rule>`; a message is the pieces of its template.
AlertOfRule(v) ==
  << [id |-> <<v.symbol, "negative-ebitda">>, type |-> "critical",
      category |-> "profitability", title |-> "Negative EBITDA",
      message |-> <<v.symbol, "shows negative earnings", formatCurrency(v.ebitda),
                    "High financial risk.">>,
      severity |-> 9, actionable |-> TRUE, timeframe |-> "immediate"],
     [id |-> <<v.symbol, "extreme-pe">>, type |-> "warning",
      category |-> "valuation", title |-> "Extreme P/E Ratio",
      message |-> <<v.symbol, "trading at", formatNumber1(v.pe_ratio, 10),
                    "x P/E - significantly overvalued.">>,
      severity |-> 7, actionable |-> TRUE, timeframe |-> "short-term"],
     [id |-> <<v.symbol, "value-opportunity">>, type |-> "opportunity",
      category |-> "valuation", title |-> "Value Investment Opportunity",
      message |-> <<v.symbol, "trading at attractive", formatNumber1(v.pe_ratio, 10),
                    "x P/E with strong EBITDA.">>,
      severity |-> 5, actionable |-> TRUE, timeframe |-> "medium-term"],
     [id |-> <<v.symbol, "small-cap-risk">>, type |-> "warning",
      category |-> "volatility", title |-> "Small Cap Volatility Risk",
      message |-> <<v.symbol, "is a small-cap company", formatCurrency(v.market_cap),
                    "Higher volatility and liquidity risk.">>,
      severity |-> 6, actionable |-> FALSE, timeframe |-> "long-term"],
     [id |-> <<v.symbol, "large-cap-stable">>, type |-> "info",
      category |-> "growth", title |-> "Large Cap Stability",
      message |-> <<v.symbol, "is a large, established company with stable earnings.">>,
      severity |-> 3, actionable |-> FALSE, timeframe |-> "long-term"],
     [id |-> <<v.symbol, "high-efficiency">>, type |-> "opportunity",
      category |-> "profitability", title |-> "High Profitability Efficiency",
      message |-> <<v.symbol, "generates",
                    IF HighYield(v) THEN formatNumber1(v.ebitda * 100, v.market_cap)
                    ELSE 0,
                    "% EBITDA yield.">>,
      severity |-> 4, actionable |-> TRUE, timeframe |-> "short-term"],
     [id |-> <<v.symbol, "no-pe-data">>, type |-> "warning",
      category |-> "valuation", title |-> "No Earnings Data Available",
      message |-> <<v.symbol, "has no P/E ratio data.">>,
      severity |-> 6, actionable |-> TRUE, timeframe |-> "immediate"] >>

\* A plausible slip: the seven ifs chained with else, so only the first rule
\* whose condition holds pushes its alert.
PushedFirstMatch(v, i) ==
  IF \E k \in i..Len(AlertConditions(v)) : AlertConditions(v)[k]
  THEN <<AlertOfRule(v)[CHOOSE k \in i..Len(AlertConditions(v)) :
                          /\ AlertConditions(v)[k]
                          /\ \A j \in i..(k - 1) : ~AlertConditions(v)[j]]>>
  ELSE <<>>

\* The alerts array after the seven if statements: the alerts of the rules
\* whose condition holds, in push order.
RECURSIVE PushedFrom(_, _)
PushedFrom(v, i) ==
  IF i > Len(AlertConditions(v)) THEN <<>>
  ELSE (IF AlertConditions(v)[i] THEN <<AlertOfRule(v)[i]>> ELSE <<>>)
       \o PushedFrom(v, i + 1)

\* A plausible slip: the comparator reversed (a.severity - b.severity).
RECURSIVE InsertBySeverityAscending(_, _)
InsertBySeverityAscending(a, sorted) ==
  IF sorted = <<>> THEN <<a>>
  ELSE IF Head(sorted).severity <= a.severity
       THEN <<Head(sorted)>> \o InsertBySeverityAscending(a, Tail(sorted))
       ELSE <<a>> \o sorted

\* a placed into a list sorted by (b.severity - a.severity), behind every
\* element that does not compare after it: Array.prototype.sort is stable.
RECURSIVE InsertBySeverity(_, _)
InsertBySeverity(a, sorted) ==
  IF sorted = <<>> THEN <<a>>
  ELSE IF Head(sorted).severity >= a.severity
       THEN <<Head(sorted)>> \o InsertBySeverity(a, Tail(sorted))
       ELSE <<a>> \o sorted

\* alerts.sort((a, b) => b.severity - a.severity)
RECURSIVE sortBySeverity(_)
sortBySeverity(alerts) ==
  IF alerts = <<>> THEN <<>>
  ELSE InsertBySeverity(alerts[Len(alerts)],
                        sortBySeverity(SubSeq(alerts, 1, Len(alerts) - 1)))

getFinancialAlerts(v) == sortBySeverity(PushedFrom(v, 1))

-----------------------------------------------------------------------------
(* industryBenchmarks, getIndustryClassification, getPeerComparison *)

\* avgPeRatio in tenths, avgMarketCap in tenths of a billion ($100M),
\* avgEbitdaMargin in tenths of a percent.
industryBenchmarks ==
  [k \in {"technology", "semiconductors", "chemicals", "diversified_chemicals"} |->
     CASE k = "technology" ->
            [industry |-> "Technology Hardware", sector |-> "Technology",
             avgPeRatio |-> 285, avgMarketCap |-> 452, avgEbitdaMargin |-> 185,
             companies |-> 156, volatilityIndex |-> 7]
       [] k = "semiconductors" ->
            [industry |-> "Semiconductors", sector |-> "Technology",
             avgPeRatio |-> 321, avgMarketCap |-> 528, avgEbitdaMargin |-> 223,
             companies |-> 89, volatilityIndex |-> 8]
       [] k = "chemicals" ->
            [industry |-> "Specialty Chemicals", sector |-> "Materials",
             avgPeRatio |-> 187, avgMarketCap |-> 284, avgEbitdaMargin |-> 168,
             companies |-> 124, volatilityIndex |-> 6]
       [] k = "diversified_chemicals" ->
            [industry |-> "Diversified Chemicals", sector |-> "Materials",
             avgPeRatio |-> 153, avgMarketCap |-> 356, avgEbitdaMargin |-> 142,
             companies |-> 67, volatilityIndex |-> 5]]

getIndustryClassification(v) ==
  LET symbol == toUpperCase(v.symbol)
      name == v.name
  IN IF \/ symbol = "TEL" \/ symbol = "ST"
        \/ includes(name, "technology") \/ includes(name, "semiconductor")
        \/ includes(name, "connectivity") \/ includes(name, "sensata")
     THEN (IF symbol = "ST" THEN "semiconductors" ELSE "technology")
     ELSE IF \/ symbol = "DD" \/ symbol = "CE" \/ symbol = "LYB"
             \/ includes(name, "chemical") \/ includes(name, "dupont")
             \/ includes(name, "celanese") \/ includes(name, "lyondell")
     THEN (IF symbol = "DD" THEN "diversified_chemicals" ELSE "chemicals")
     ELSE "technology"

\* A quotient n / d of the source, kept exact.  d = 0 is what a division by
\* zero leaves: Infinity when n > 0, NaN when n = 0.
Frac(n, d) == [n |-> n, d |-> d]

Zero == Frac(0, 1)

\* x > 0 for a quotient (false for NaN).
Positive(f) == f.n > 0

\* Math.min(100, Math.max(0, x)); NaN stays NaN.
Clamp(f) ==
  IF f.d = 0 THEN (IF f.n > 0 THEN Frac(100, 1) ELSE f)
  ELSE IF f.n >= 100 * f.d THEN Frac(100, 1)
  ELSE IF f.n <= 0 THEN Zero
  ELSE f

\* a / b >= c / d for a, c >= 0 and b, d > 0, by the integer parts and then
\* the reciprocals of the fractional parts (no product is formed).
RECURSIVE GeFrac(_, _, _, _)
GeFrac(a, b, c, d) ==
  IF a \div b # c \div d THEN a \div b > c \div d
  ELSE IF c % d = 0 THEN TRUE
  ELSE IF a % b = 0 THEN FALSE
  ELSE GeFrac(d, c % d, b, a % b)

\* p1 + p2 + p3 >= k, for clamped percentiles and an integer k: the mean of
\* the three is at least k / 3.
SumAtLeast(p1, p2, p3, k) ==
  LET rest == k * (p1.d * p2.d) - (p1.n * p2.d + p2.n * p1.d)
  IN IF rest <= 0 THEN TRUE ELSE GeFrac(p3.n, p3.d, rest, p1.d * p2.d)

\* A plausible slip: the market_cap > 0 guard forgotten.
ebitdaMarginUnguarded(v) ==
  IF v.ebitda > 0 THEN Frac(v.ebitda * 100, v.market_cap) ELSE Zero

\* ebitdaMargin, in percent.
ebitdaMargin(v) ==
  IF v.ebitda > 0 /\ v.market_cap > 0
  THEN Frac(v.ebitda * 100, v.market_cap)
  ELSE Zero

pePercentile(v, industry) ==
  IF v.pe_ratio > 0 THEN Clamp(Frac(v.pe_ratio * 50, industry.avgPeRatio)) ELSE Zero

marketCapPercentile(v, industry) ==
  Clamp(Frac(v.market_cap * 50, industry.avgMarketCap))

\* The EBITDA-margin percentile of a margin (in percent).
PercentileOfMargin(margin, industry) ==
  IF Positive(margin)
  THEN Clamp(Frac(margin.n * 500, margin.d * industry.avgEbitdaMargin))
  ELSE Zero

ebitdaMarginPercentile(v, industry) == PercentileOfMargin(ebitdaMargin(v), industry)

\* A plausible slip: the 50 and 25 cut-offs swapped.
overallRankingSwapped(p1, p2, p3) ==
  IF SumAtLeast(p1, p2, p3, 225) THEN "top-quartile"
  ELSE IF SumAtLeast(p1, p2, p3, 75) THEN "above-average"
  ELSE IF SumAtLeast(p1, p2, p3, 150) THEN "below-average"
  ELSE "bottom-quartile"

\* The band of compositeScore = (p1 + p2 + p3) / 3.
overallRanking(p1, p2, p3) ==
  IF SumAtLeast(p1, p2, p3, 225) THEN "top-quartile"
  ELSE IF SumAtLeast(p1, p2, p3, 150) THEN "above-average"
  ELSE IF SumAtLeast(p1, p2, p3, 75) THEN "below-average"
  ELSE "bottom-quartile"

\* The insight strings, as the pieces of their templates.
InsightsOf(v, industry, margin) ==
  (IF v.pe_ratio * 10 > industry.avgPeRatio * 15
   THEN << <<"Trading at", formatNumber1(v.pe_ratio, industry.avgPeRatio),
             "x industry average P/E - premium valuation">> >>
   ELSE IF v.pe_ratio > 0 /\ v.pe_ratio * 10 < industry.avgPeRatio * 8
   THEN << <<"Trading below industry average P/E - potential value opportunity">> >>
   ELSE <<>>)
  \o
  (IF v.market_cap * 10 > industry.avgMarketCap * 15
   THEN << <<"Market cap", formatNumber1(v.market_cap, industry.avgMarketCap),
             "x larger than industry average - market leader">> >>
   ELSE <<>>)
  \o
  (IF Positive(margin) /\ margin.n * 100 > industry.avgEbitdaMargin * 12 * margin.d
   THEN << <<"EBITDA margin above industry average - operational excellence">> >>
   ELSE IF /\ Positive(margin)
           /\ margin.n * 100 < industry.avgEbitdaMargin * 8 * margin.d
   THEN << <<"EBITDA margin below industry peers - efficiency opportunity">> >>
   ELSE <<>>)

PeerInsights(v, industry) == InsightsOf(v, industry, ebitdaMargin(v))

\* The object returned, from the three percentiles.
PeerResult(v, industry, p1, p2, p3) ==
  [vendor |-> v, industry |-> industry,
   pePercentile |-> p1, marketCapPercentile |-> p2,
   ebitdaMarginPercentile |-> p3,
   overallRanking |-> overallRanking(p1, p2, p3),
   insights |-> PeerInsights(v, industry)]

\* getPeerComparison once the industry is looked up.
PeerComparisonIn(v, industry) ==
  PeerResult(v, industry, pePercentile(v, industry), marketCapPercentile(v, industry),
             ebitdaMarginPercentile(v, industry))

getPeerComparison(v) == PeerComparisonIn(v, industryBenchmarks[getIndustryClassification(v)])

-----------------------------------------------------------------------------
(* The dashboard row: the data-fetch layer has supplied a vendor record    *)
(* (immutable once produced); the scorers are called on it in any order.   *)
(* op names the last call and result holds what it returned.               *)

NoResult == [none |-> TRUE]

\* useState(['TEL', 'ST', 'DD', 'CE', 'LYB'])
initialTickers == <<"TEL", "ST", "DD", "CE", "LYB">>

\* The data-fetch layer as a first load leaves it: no stored mock-mode flag
\* and the initial tickers.
DataLayerAtRest ==
  /\ useMockData = FALSE
  /\ activeTickers = initialTickers

\* The weather panel is not mounted while the rows are scored.
NoWeatherPanel ==
  /\ sectorTag = "UNKNOWN"
  /\ industryTag = "UNKNOWN"
  /\ currentMonth = 1
  /\ currentYear = 2025
  /\ vendors = <<>>
  /\ draws = 0
  /\ DataLayerAtRest

Init ==
  /\ vendor \in VendorOverview
  /\ op = "none"
  /\ result = NoResult
  /\ NoWeatherPanel

CallGetContractReadiness ==
  /\ op' = "getContractReadiness"
  /\ result' = getContractReadiness(vendor)
  /\ draws' = 0
  /\ UNCHANGED <<inputs, dataLayer>>

CallGetWeatherExposure ==
  /\ op' = "getWeatherExposure"
  /\ result' = getWeatherExposure(vendor)
  /\ draws' = 0
  /\ UNCHANGED <<inputs, dataLayer>>

CallGetSalesOpportunity ==
  /\ op' = "getSalesOpportunity"
  /\ result' = getSalesOpportunity(vendor)
  /\ draws' = 0
  /\ UNCHANGED <<inputs, dataLayer>>

CallGetFinancialAlerts ==
  /\ op' = "getFinancialAlerts"
  /\ result' = getFinancialAlerts(vendor)
  /\ draws' = 0
  /\ UNCHANGED <<inputs, dataLayer>>

CallGetPeerComparison ==
  /\ op' = "getPeerComparison"
  /\ result' = getPeerComparison(vendor)
  /\ draws' = 0
  /\ UNCHANGED <<inputs, dataLayer>>

Next ==
  \/ CallGetContractReadiness
  \/ CallGetWeatherExposure
  \/ CallGetSalesOpportunity
  \/ CallGetFinancialAlerts
  \/ CallGetPeerComparison

Spec == Init /\ [][Next]_vars

-----------------------------------------------------------------------------
(* Contract readiness *)

Grades == {"A+", "A", "A-", "B+", "B", "B-", "C"}

\* Position of a grade in the order C < B- < B < B+ < A- < A < A+.
GradeRank(g) ==
  CASE g = "C" -> 0 [] g = "B-" -> 1 [] g = "B" -> 2 [] g = "B+" -> 3
    [] g = "A-" -> 4 [] g = "A" -> 5 [] g = "A+" -> 6

\* The vendor of the current row with another market cap, all else equal.
WithCap(c) == [vendor EXCEPT !.market_cap = c]

\* C1: for every vendor the strength score computed by getContractReadiness
\* lies in 0..100 and the returned grade is one of the seven fixed grades.
C1_ScoreInRangeAndGradeFixed ==
  op = "getContractReadiness" =>
    /\ strengthScore(vendor) \in 0..100
    /\ result.score \in Grades

\* C2 as stated: a strictly higher market cap, all else equal, never gives a
\* lower strength score, and so never a lower grade.
C2_HigherCapNeverLowersScore ==
  op = "getContractReadiness" =>
    \A c \in CapValues :
      c > vendor.market_cap =>
        /\ strengthScore(WithCap(c)) >= strengthScore(vendor)
        /\ GradeRank(getContractReadiness(WithCap(c)).score) >= GradeRank(result.score)

\* C2 amended: a strictly higher market cap, all else equal, never gives a
\* lower size component, and never a lower strength score or grade when the
\* two records have the same efficiency component (as whenever EBITDA <= 0).
C2_HigherCapNeverLowersSize ==
  op = "getContractReadiness" =>
    \A c \in CapValues :
      c > vendor.market_cap =>
        /\ SizeComponent(WithCap(c)) >= SizeComponent(vendor)
        /\ EfficiencyComponent(WithCap(c)) = EfficiencyComponent(vendor) =>
             /\ strengthScore(WithCap(c)) >= strengthScore(vendor)
             /\ GradeRank(getContractReadiness(WithCap(c)).score)
                  >= GradeRank(result.score)

\* A profitable vendor scored, with a larger-cap twin in the same efficiency
\* band whose score is strictly higher.
C2_Witness ==
  /\ op = "getContractReadiness"
  /\ vendor.ebitda > 0
  /\ \E c \in CapValues :
       /\ c > vendor.market_cap
       /\ EfficiencyComponent(WithCap(c)) = EfficiencyComponent(vendor)
       /\ strengthScore(WithCap(c)) > strengthScore(vendor)

-----------------------------------------------------------------------------
(* Weather exposure *)

\* The rules of the chain whose condition holds on the vendor of the row.
MatchingRules == {i \in 1..Len(BaseRulePoints) : BaseRuleMatches(vendor)[i]}

\* C7: for every vendor the exposure score lies in 0..100, and its base
\* component (the score less the size and P/E bonuses) is the points of at
\* most one keyword/ticker rule: 0, or the points of one matching rule.
C7_ExposureInRangeOneBaseRule ==
  op = "getWeatherExposure" =>
    /\ exposureScore(vendor) \in 0..100
    /\ LET base == exposureScore(vendor) - ExposureSizeBonus(vendor)
                   - ExposurePeBonus(vendor)
       IN IF MatchingRules = {}
          THEN base = 0
          ELSE \E i \in MatchingRules : base = BaseRulePoints[i]

\* The exposure of a vendor whose name matches several rules was computed.
C7_Witness ==
  /\ op = "getWeatherExposure"
  /\ Cardinality(MatchingRules) >= 3
  /\ result.level = "Critical"

-----------------------------------------------------------------------------
(* Sales opportunity *)

\* The vendor of the current row under another symbol and name.
Renamed(sym, nm) == [vendor EXCEPT !.symbol = sym, !.name = nm]

\* C8: two vendors that agree on the contract-readiness result, the
\* weather-exposure result, market cap, P/E and EBITDA get the same priority
\* and the same reason string, whatever their symbols and names.
C8_SalesOpportunityDependsOnFiveInputs ==
  op = "getSalesOpportunity" =>
    LET readiness == getContractReadiness(vendor)
        exposure == getWeatherExposure(vendor)
    IN \A sym \in Symbols, nm \in Names :
         (/\ getWeatherExposure(Renamed(sym, nm)) = exposure
          /\ getContractReadiness(Renamed(sym, nm)) = readiness)
         => LET other == getSalesOpportunity(Renamed(sym, nm))
            IN /\ other.priority = result.priority
               /\ other.reason = result.reason

\* A Platinum vendor ranked, with a twin of another symbol and another name
\* that has the same readiness and exposure results.
C8_Witness ==
  /\ op = "getSalesOpportunity"
  /\ result.priority = "Platinum"
  /\ \E sym \in Symbols, nm \in Names :
       /\ sym # vendor.symbol
       /\ nm # vendor.name
       /\ getContractReadiness(Renamed(sym, nm)) = getContractReadiness(vendor)
       /\ getWeatherExposure(Renamed(sym, nm)) = getWeatherExposure(vendor)

-----------------------------------------------------------------------------
(* Financial alerts *)

\* The rule-declaration position of an alert, from the rule part of its id.
RuleOfAlert(alert) ==
  CASE alert.id[2] = "negative-ebitda" -> 1
    [] alert.id[2] = "extreme-pe" -> 2
    [] alert.id[2] = "value-opportunity" -> 3
    [] alert.id[2] = "small-cap-risk" -> 4
    [] alert.id[2] = "large-cap-stable" -> 5
    [] alert.id[2] = "high-efficiency" -> 6
    [] alert.id[2] = "no-pe-data" -> 7

\* The vendor of the row is healthy in the sense of C3: EBITDA >= 0,
\* 15 <= P/E <= 50, market cap >= 5B, not (market cap > 50B and EBITDA > 5B).
C3_Healthy ==
  /\ vendor.ebitda >= 0
  /\ vendor.pe_ratio >= 150 /\ vendor.pe_ratio <= 500
  /\ vendor.market_cap >= 50
  /\ ~(vendor.market_cap > 500 /\ vendor.ebitda > 50)

\* C3 as stated: getFinancialAlerts returns an empty list for every vendor
\* with EBITDA >= 0, 15 <= P/E <= 50, market cap >= 5B and not (market cap >
\* 50B and EBITDA > 5B).
C3_HealthyVendorNoAlerts ==
  (op = "getFinancialAlerts" /\ C3_Healthy) => result = <<>>

\* C3 amended: such a vendor gets an empty list when, in addition, its EBITDA
\* is at most 12% of its market cap.
C3_HealthyLowYieldVendorNoAlerts ==
  (/\ op = "getFinancialAlerts"
   /\ C3_Healthy
   /\ vendor.ebitda * 100 <= 12 * vendor.market_cap) => result = <<>>

\* The alerts of a healthy, profitable vendor with a yield of at most 12%
\* were computed.
C3_Witness ==
  /\ op = "getFinancialAlerts"
  /\ C3_Healthy
  /\ vendor.ebitda > 0
  /\ vendor.ebitda * 100 <= 12 * vendor.market_cap
  /\ result = <<>>

\* C4: the returned list is in non-increasing severity, and alerts of equal
\* severity are in rule-declaration order.
C4_AlertsSortedStable ==
  op = "getFinancialAlerts" =>
    \A i, j \in 1..Len(result) :
      i < j =>
        /\ result[i].severity >= result[j].severity
        /\ result[i].severity = result[j].severity =>
             RuleOfAlert(result[i]) < RuleOfAlert(result[j])

\* A list in which the sort moved an alert forward and kept a tie in order:
\* small-cap (6) and no-P/E-data (6) after negative EBITDA, before a lower one.
C4_Witness ==
  /\ op = "getFinancialAlerts"
  /\ Len(result) >= 3
  /\ \E i \in 1..(Len(result) - 1) :
       /\ result[i].title = "Small Cap Volatility Risk"
       /\ result[i + 1].title = "No Earnings Data Available"
  /\ \E i, j \in 1..Len(result) :
       i < j /\ RuleOfAlert(result[i]) > RuleOfAlert(result[j])

\* C5: a vendor with EBITDA < 0 and P/E = 0 gets the critical 'Negative
\* EBITDA' alert first in the list and the 'No Earnings Data Available'
\* warning after it, whatever its market cap.
C5_NegativeEbitdaThenNoPeData ==
  (op = "getFinancialAlerts" /\ vendor.ebitda < 0 /\ vendor.pe_ratio = 0) =>
    /\ Len(result) >= 2
    /\ result[1].title = "Negative EBITDA"
    /\ result[1].type = "critical"
    /\ \E j \in 2..Len(result) :
         /\ result[j].title = "No Earnings Data Available"
         /\ result[j].type = "warning"

\* The alerts of a small-cap vendor with EBITDA < 0 and P/E = 0 were computed.
C5_Witness ==
  /\ op = "getFinancialAlerts"
  /\ vendor.ebitda < 0
  /\ vendor.pe_ratio = 0
  /\ vendor.market_cap < 50
  /\ Len(result) = 3

\* The seven rules as the design states them: condition, kind, severity.
C6_RuleHolds ==
  << vendor.ebitda < 0,
     vendor.pe_ratio > 500,
     vendor.pe_ratio > 0 /\ vendor.pe_ratio < 150 /\ vendor.ebitda > 10,
     vendor.market_cap < 50,
     vendor.market_cap > 500 /\ vendor.ebitda > 50,
     vendor.ebitda > 0 /\ vendor.market_cap > 0
       /\ vendor.ebitda * 100 > 12 * vendor.market_cap,
     vendor.pe_ratio = 0 >>

C6_RuleKind == <<"critical", "warning", "opportunity", "warning", "info",
                 "opportunity", "warning">>

C6_RuleSeverity == <<9, 7, 5, 6, 3, 4, 6>>

\* C6: the returned list holds exactly one alert, of the stated kind and
\* severity, for each rule whose condition holds and none for any other
\* rule, and no two alerts of it share an identifier.
C6_OneAlertPerHoldingRule ==
  op = "getFinancialAlerts" =>
    /\ \A r \in 1..7 :
         LET hits == {i \in 1..Len(result) : RuleOfAlert(result[i]) = r}
         IN IF C6_RuleHolds[r]
            THEN /\ Cardinality(hits) = 1
                 /\ \A i \in hits : /\ result[i].type = C6_RuleKind[r]
                                    /\ result[i].severity = C6_RuleSeverity[r]
                                    /\ result[i].id[1] = vendor.symbol
            ELSE hits = {}
    /\ \A i, j \in 1..Len(result) : i # j => result[i].id # result[j].id

\* A list with the alerts of three rules at once, the large-cap one last.
C6_Witness ==
  /\ op = "getFinancialAlerts"
  /\ Len(result) = 3
  /\ result[3].title = "Large Cap Stability"

-----------------------------------------------------------------------------
(* Peer comparison *)

\* The three percentile fields of a getPeerComparison result.
Percentiles(r) == {r.pePercentile, r.marketCapPercentile, r.ebitdaMarginPercentile}

\* Position of a ranking in the order bottom < below < above < top.
RankingOrder(ranking) ==
  CASE ranking = "bottom-quartile" -> 0
    [] ranking = "below-average" -> 1
    [] ranking = "above-average" -> 2
    [] ranking = "top-quartile" -> 3

\* The mean of the three percentile fields of r is at least cut.
MeanAtLeast(r, cut) ==
  SumAtLeast(r.pePercentile, r.marketCapPercentile, r.ebitdaMarginPercentile, 3 * cut)

\* C9: each percentile field lies in 0..100, and the ranking is the band of
\* their mean: at least below-average iff mean >= 25, at least above-average
\* iff mean >= 50, top-quartile iff mean >= 75 (so it is monotone in the mean).
C9_PercentilesInRangeRankingByMean ==
  op = "getPeerComparison" =>
    /\ \A p \in Percentiles(result) : p.d > 0 /\ 0 <= p.n /\ p.n <= 100 * p.d
    /\ RankingOrder(result.overallRanking) >= 1 <=> MeanAtLeast(result, 25)
    /\ RankingOrder(result.overallRanking) >= 2 <=> MeanAtLeast(result, 50)
    /\ RankingOrder(result.overallRanking) >= 3 <=> MeanAtLeast(result, 75)

\* An above-average vendor compared, none of its percentiles clamped.
C9_Witness ==
  /\ op = "getPeerComparison"
  /\ result.overallRanking = "above-average"
  /\ \A p \in Percentiles(result) : 0 < p.n /\ p.n < 100 * p.d

\* C10: the P/E percentile is exactly 0 when P/E = 0, the EBITDA-margin
\* percentile is exactly 0 when EBITDA <= 0 or market cap <= 0, the industry
\* key is one of the table, and no quotient has a zero divisor: every
\* percentile is a defined number.
C10_ZeroPercentilesNoDivisionByZero ==
  op = "getPeerComparison" =>
    /\ getIndustryClassification(vendor) \in DOMAIN industryBenchmarks
    /\ result.industry = industryBenchmarks[getIndustryClassification(vendor)]
    /\ result.industry.avgPeRatio > 0
    /\ result.industry.avgMarketCap > 0
    /\ result.industry.avgEbitdaMargin > 0
    /\ ebitdaMargin(vendor).d > 0
    /\ \A p \in Percentiles(result) : p.d > 0
    /\ vendor.pe_ratio = 0 => result.pePercentile = Zero
    /\ (vendor.ebitda <= 0 \/ vendor.market_cap <= 0) =>
         result.ebitdaMarginPercentile = Zero

\* A vendor with market cap 0, positive EBITDA and no P/E compared against
\* the diversified-chemicals benchmark.
C10_Witness ==
  /\ op = "getPeerComparison"
  /\ vendor.market_cap = 0
  /\ vendor.ebitda > 0
  /\ vendor.pe_ratio = 0
  /\ result.industry.industry = "Diversified Chemicals"
  /\ result.ebitdaMarginPercentile = Zero

-----------------------------------------------------------------------------
(* Weather intelligence (dynamicWeatherIntelligence.ts).                   *)
(*                                                                         *)
(* Math.random() is the ambient generator: a call that draws k times gets  *)
(* k values the caller cannot choose.  A drawn value is kept as its        *)
(* numerator over 32 (16 is 0.5), which a double holds exactly; rnd is the *)
(* sequence of values the generator hands to one call, in call order.      *)
(* estimated_impact is in USD.                                             *)

\* Sampled values of Math.random(): 0 and 0.96875 (the source yields [0, 1)); the
\* first is below and the second above every threshold a draw is compared with.
RandomValues == {0, 31}

\* Math.floor(Math.random() * n)
FloorTimes(r, n) == (r * n) \div 32

\* Math.random() > tenths / 10
Above(r, tenths) == r * 10 > tenths * 32

\* The five vendors of the dashboard.
mockVendorOverviews ==
  << [symbol |-> "TEL", name |-> "TE Connectivity Ltd",
      market_cap |-> 435, pe_ratio |-> 182, ebitda |-> 28],
     [symbol |-> "ST", name |-> "STMicroelectronics N.V.",
      market_cap |-> 382, pe_ratio |-> 157, ebitda |-> 32],
     [symbol |-> "DD", name |-> "DuPont de Nemours Inc",
      market_cap |-> 356, pe_ratio |-> 149, ebitda |-> 41],
     [symbol |-> "CE", name |-> "Celanese Corporation",
      market_cap |-> 128, pe_ratio |-> 113, ebitda |-> 19],
     [symbol |-> "LYB", name |-> "LyondellBasell Industries N.V.",
      market_cap |-> 284, pe_ratio |-> 98, ebitda |-> 52] >>

\* A vendor the tables do not know.
UnknownVendor ==
  [symbol |-> "ACME", name |-> "Acme Holdings", market_cap |-> 20, pe_ratio |-> 0, ebitda |-> -20]

COMPANY_OPERATIONAL_DATA ==
  [ TEL |-> [primaryRegions |-> <<"Asia-Pacific", "Europe", "Americas">>,
             seasonalPeaks |-> {6, 7, 8},
             weatherVulnerabilities |-> <<"extreme_heat", "flooding", "power_outages">>],
    ST  |-> [primaryRegions |-> <<"Europe", "Asia", "North America">>,
             seasonalPeaks |-> {9, 10, 11},
             weatherVulnerabilities |->
               <<"winter_storms", "supply_chain_disruption", "extreme_temperatures">>],
    DD  |-> [primaryRegions |-> <<"Gulf Coast", "Delaware", "Global chemical corridors">>,
             seasonalPeaks |-> {4, 5, 6},
             weatherVulnerabilities |->
               <<"hurricanes", "extreme_heat", "flooding", "chemical_transport_disruption">>],
    CE  |-> [primaryRegions |-> <<"Texas", "Louisiana", "International operations">>,
             seasonalPeaks |-> {7, 8, 9},
             weatherVulnerabilities |->
               <<"hurricanes", "extreme_heat", "winter_freeze", "infrastructure_damage">>],
    LYB |-> [primaryRegions |-> <<"Texas", "Europe", "Asia">>,
             seasonalPeaks |-> {5, 6, 7},
             weatherVulnerabilities |->
               <<"hurricanes", "extreme_heat", "drought", "supply_disruption">>] ]

\* String(n) for 1 <= n <= 99, as its decimal digits.
String(n) == IF n < 10 THEN <<n>> ELSE <<n \div 10, n % 10>>

\* s.padStart(2, '0')
padStart2(s) == IF Len(s) < 2 THEN <<0>> \o s ELSE s

\* `${currentYear}-${String(currentMonth).padStart(2, '0')}-${day}`
DateString(year, month, day) == <<year, padStart2(String(month)), day>>

\* companyData.primaryRegions.filter(r => list.some(region => r.includes(region))).
\* No region name of the table contains a listed name without being equal to it.
FilterRegions(primaryRegions, list) == SelectSeq(primaryRegions, LAMBDA r : r \in list)

\* The gates with the hurricane season opened a month early.
SeasonalGateFromMay(vulnerability, month) ==
  CASE vulnerability = "hurricanes" -> month >= 5 /\ month <= 11
    [] vulnerability = "extreme_heat" -> month >= 6 /\ month <= 9
    [] vulnerability = "winter_storms" -> month >= 12 \/ month <= 3
    [] vulnerability = "flooding" -> month >= 4 /\ month <= 10
    [] OTHER -> FALSE

\* The seasonal gate of a vulnerability's case; a kind without a case has none.
SeasonalGate(vulnerability, month) ==
  CASE vulnerability = "hurricanes" -> month >= 6 /\ month <= 11
    [] vulnerability = "extreme_heat" -> month >= 6 /\ month <= 9
    [] vulnerability = "winter_storms" -> month >= 12 \/ month <= 3
    [] vulnerability = "flooding" -> month >= 4 /\ month <= 10
    [] OTHER -> FALSE

\* Math.random() calls made by a case whose gate is open.
DrawsOfCase(vulnerability) == IF vulnerability = "hurricanes" THEN 2 ELSE 4

\* Math.random() calls made before the forEach reaches vulnerability i.
RECURSIVE DrawsBefore(_, _, _)
DrawsBefore(weatherVulnerabilities, i, month) ==
  IF i = 1 THEN 0
  ELSE DrawsBefore(weatherVulnerabilities, i - 1, month)
       + (IF SeasonalGate(weatherVulnerabilities[i - 1], month)
          THEN DrawsOfCase(weatherVulnerabilities[i - 1]) ELSE 0)

\* shouldGenerate of a case whose gate is open; k draws were made before it.
ShouldGenerate(vulnerability, rnd, k) ==
  CASE vulnerability = "hurricanes" -> TRUE
    [] vulnerability = "extreme_heat" -> Above(rnd[k + 1], 3)
    [] vulnerability = "winter_storms" -> Above(rnd[k + 1], 4)
    [] vulnerability = "flooding" -> Above(rnd[k + 1], 6)

\* Math.floor((-base - (Math.random() * spread)) * riskMultiplier)
EstimatedImpact(base, spread, r, riskMultiplier) ==
  ((0 - base - (spread \div 32) * r) * riskMultiplier.n) \div riskMultiplier.d

WeatherEvent(type, severity, date, regions, impact, accuracy) ==
  [event_type |-> type, severity |-> severity, date |-> date, affected_regions |-> regions,
   estimated_impact |-> impact, windborne_prediction_accuracy |-> accuracy]

\* eventDetails of a case whose gate is open.
EventDetails(vulnerability, companyData, month, year, riskMultiplier, rnd, k) ==
  CASE vulnerability = "hurricanes" ->
         WeatherEvent("hurricane",
           IF month >= 8 /\ month <= 10 THEN "severe" ELSE "moderate",
           DateString(year, month, String(15)),
           FilterRegions(companyData.primaryRegions,
                         {"Gulf Coast", "Texas", "Louisiana", "Southeast US"}),
           EstimatedImpact(30000000, 80000000, rnd[k + 1], riskMultiplier),
           87 + FloorTimes(rnd[k + 2], 11))
    [] vulnerability = "extreme_heat" ->
         WeatherEvent("extreme_heat",
           IF month = 7 \/ month = 8 THEN "severe" ELSE "moderate",
           DateString(year, month, String(FloorTimes(rnd[k + 2], 28) + 1)),
           companyData.primaryRegions,
           EstimatedImpact(10000000, 25000000, rnd[k + 3], riskMultiplier),
           89 + FloorTimes(rnd[k + 4], 9))
    [] vulnerability = "winter_storms" ->
         WeatherEvent("winter_storm",
           IF month = 1 \/ month = 2 THEN "severe" ELSE "moderate",
           DateString(year, month, String(FloorTimes(rnd[k + 2], 28) + 1)),
           FilterRegions(companyData.primaryRegions,
                         {"Europe", "North America", "Northeast US", "Midwest"}),
           EstimatedImpact(15000000, 35000000, rnd[k + 3], riskMultiplier),
           84 + FloorTimes(rnd[k + 4], 13))
    [] vulnerability = "flooding" ->
         WeatherEvent("flooding", "moderate",
           DateString(year, month, String(FloorTimes(rnd[k + 2], 28) + 1)),
           companyData.primaryRegions,
           EstimatedImpact(20000000, 40000000, rnd[k + 3], riskMultiplier),
           82 + FloorTimes(rnd[k + 4], 15))

\* isSeasonalPeak ? 1.5 : 1.0
RiskMultiplier(companyData, month) ==
  IF month \in companyData.seasonalPeaks THEN Frac(3, 2) ELSE Frac(1, 1)

\* A pass that pushes its event on both sides of the test.
PushedForVulnerabilityTwice(companyData, i, month, year, rnd, k) ==
  IF SeasonalGate(companyData.weatherVulnerabilities[i], month)
     /\ ShouldGenerate(companyData.weatherVulnerabilities[i], rnd, k)
  THEN << EventDetails(companyData.weatherVulnerabilities[i], companyData, month, year,
                       RiskMultiplier(companyData, month), rnd, k),
          EventDetails(companyData.weatherVulnerabilities[i], companyData, month, year,
                       RiskMultiplier(companyData, month), rnd, k) >>
  ELSE << >>

\* What one pass of the forEach body pushes for vulnerability i.
PushedForVulnerability(companyData, i, month, year, rnd, k) ==
  IF SeasonalGate(companyData.weatherVulnerabilities[i], month)
     /\ ShouldGenerate(companyData.weatherVulnerabilities[i], rnd, k)
  THEN << EventDetails(companyData.weatherVulnerabilities[i], companyData, month, year,
                       RiskMultiplier(companyData, month), rnd, k) >>
  ELSE << >>

\* The events the forEach has pushed after vulnerabilities 1..i.
RECURSIVE CompanyEvents(_, _, _, _, _)
CompanyEvents(companyData, i, month, year, rnd) ==
  IF i = 0 THEN << >>
  ELSE CompanyEvents(companyData, i - 1, month, year, rnd)
       \o PushedForVulnerability(companyData, i, month, year, rnd,
                                 DrawsBefore(companyData.weatherVulnerabilities, i, month))

\* The fallback with the winter window closed after February.
SectorEventsWinterToFebruary(sector, month, year, rnd) ==
  (IF sector = "BASIC MATERIALS" /\ month >= 6 /\ month <= 11
   THEN << WeatherEvent("hurricane", "severe", DateString(year, month, String(15)),
                        <<"Gulf Coast", "Southeast US">>,
                        EstimatedImpact(50000000, 100000000, rnd[1], Frac(1, 1)),
                        88 + FloorTimes(rnd[2], 10)) >>
   ELSE << >>)
  \o
  (IF sector = "TECHNOLOGY" /\ (month >= 12 \/ month <= 2)
   THEN << WeatherEvent("winter_storm", "moderate", <<year, <<0, 2>>, String(20)>>,
                        <<"Northeast US", "Midwest">>,
                        EstimatedImpact(20000000, 40000000, rnd[1], Frac(1, 1)),
                        85 + FloorTimes(rnd[2], 12)) >>
   ELSE << >>)

\* The fallback with the hurricane severity of the profile branch.
SectorEventsEscalating(sector, month, year, rnd) ==
  (IF sector = "BASIC MATERIALS" /\ month >= 6 /\ month <= 11
   THEN << WeatherEvent("hurricane",
                        IF month >= 8 /\ month <= 10 THEN "severe" ELSE "moderate",
                        DateString(year, month, String(15)),
                        <<"Gulf Coast", "Southeast US">>,
                        EstimatedImpact(50000000, 100000000, rnd[1], Frac(1, 1)),
                        88 + FloorTimes(rnd[2], 10)) >>
   ELSE << >>)
  \o
  (IF sector = "TECHNOLOGY" /\ (month >= 12 \/ month <= 3)
   THEN << WeatherEvent("winter_storm", "moderate", <<year, <<0, 2>>, String(20)>>,
                        <<"Northeast US", "Midwest">>,
                        EstimatedImpact(20000000, 40000000, rnd[1], Frac(1, 1)),
                        85 + FloorTimes(rnd[2], 12)) >>
   ELSE << >>)

\* The fallback for a symbol without operational data.
SectorEvents(sector, month, year, rnd) ==
  (IF sector = "BASIC MATERIALS" /\ month >= 6 /\ month <= 11
   THEN << WeatherEvent("hurricane", "severe", DateString(year, month, String(15)),
                        <<"Gulf Coast", "Southeast US">>,
                        EstimatedImpact(50000000, 100000000, rnd[1], Frac(1, 1)),
                        88 + FloorTimes(rnd[2], 10)) >>
   ELSE << >>)
  \o
  (IF sector = "TECHNOLOGY" /\ (month >= 12 \/ month <= 3)
   THEN << WeatherEvent("winter_storm", "moderate", <<year, <<0, 2>>, String(20)>>,
                        <<"Northeast US", "Midwest">>,
                        EstimatedImpact(20000000, 40000000, rnd[1], Frac(1, 1)),
                        85 + FloorTimes(rnd[2], 12)) >>
   ELSE << >>)

generateWeatherEvents(symbol, sector, industry, month, year, rnd) ==
  IF symbol \in DOMAIN COMPANY_OPERATIONAL_DATA
  THEN CompanyEvents(COMPANY_OPERATIONAL_DATA[symbol],
                     Len(COMPANY_OPERATIONAL_DATA[symbol].weatherVulnerabilities),
                     month, year, rnd)
  ELSE SectorEvents(sector, month, year, rnd)

\* Math.random() calls made by generateWeatherEvents.
WeatherEventDraws(symbol, sector, month) ==
  IF symbol \in DOMAIN COMPANY_OPERATIONAL_DATA
  THEN DrawsBefore(COMPANY_OPERATIONAL_DATA[symbol].weatherVulnerabilities,
                   Len(COMPANY_OPERATIONAL_DATA[symbol].weatherVulnerabilities) + 1, month)
  ELSE IF \/ sector = "BASIC MATERIALS" /\ month >= 6 /\ month <= 11
          \/ sector = "TECHNOLOGY" /\ (month >= 12 \/ month <= 3)
       THEN 2 ELSE 0

(* The weather panel asks for one vendor's events: the symbol is the       *)
(* vendor's, the tags are the caller's, the month and year are the         *)
(* clock's, and the generator supplies the draws.                          *)

\* The caller's table from symbol to tags.
sectorMapping ==
  [ TEL |-> [sector |-> "TECHNOLOGY", industry |-> "ELECTRONIC COMPONENTS"],
    ST  |-> [sector |-> "TECHNOLOGY", industry |-> "SCIENTIFIC & TECHNICAL INSTRUMENTS"],
    DD  |-> [sector |-> "BASIC MATERIALS", industry |-> "SPECIALTY CHEMICALS"],
    CE  |-> [sector |-> "BASIC MATERIALS", industry |-> "SPECIALTY CHEMICALS"],
    LYB |-> [sector |-> "BASIC MATERIALS", industry |-> "SPECIALTY CHEMICALS"] ]

\* sectorMapping[vendor.symbol] || { sector: 'UNKNOWN', industry: 'UNKNOWN' }
SectorInfo(symbol) ==
  IF symbol \in DOMAIN sectorMapping THEN sectorMapping[symbol]
  ELSE [sector |-> "UNKNOWN", industry |-> "UNKNOWN"]

\* Sector tags another caller passes for a symbol outside the tables.
EventSectors == {"BASIC MATERIALS", "TECHNOLOGY", "ENERGY", "UNKNOWN"}

\* The years the clock is sampled in.
Years == {2025}

EventInit ==
  /\ vendor \in {mockVendorOverviews[i] : i \in 1..Len(mockVendorOverviews)} \cup {UnknownVendor}
  /\ sectorTag \in (IF vendor.symbol \in DOMAIN sectorMapping
                    THEN {SectorInfo(vendor.symbol).sector} ELSE EventSectors)
  /\ industryTag = SectorInfo(vendor.symbol).industry
  /\ currentMonth \in 1..12
  /\ currentYear \in Years
  /\ vendors = << >>
  /\ op = "none"
  /\ result = NoResult
  /\ draws = 0
  /\ DataLayerAtRest

CallGenerateWeatherEvents ==
  \E rnd \in [1..WeatherEventDraws(vendor.symbol, sectorTag, currentMonth) -> RandomValues] :
    /\ op' = "generateWeatherEvents"
    /\ result' = generateWeatherEvents(vendor.symbol, sectorTag, industryTag,
                                       currentMonth, currentYear, rnd)
    /\ draws' = Len(rnd)
    /\ UNCHANGED <<inputs, dataLayer>>

EventNext == CallGenerateWeatherEvents

EventSpec == EventInit /\ [][EventNext]_vars

-----------------------------------------------------------------------------
(* Weather events *)

\* The month a date string carries.
MonthOfDate(date) == date[2][1] * 10 + date[2][2]

HurricaneSeason == 6..11

\* C11: whatever the symbol, the sector, the month and the draws, an event of
\* kind hurricane is returned only when the current month is in 6..11, and the
\* month in its date is in 6..11.
C11_HurricanesOnlyInSeason ==
  op = "generateWeatherEvents" =>
    \A i \in 1..Len(result) :
      result[i].event_type = "hurricane" =>
        /\ currentMonth \in HurricaneSeason
        /\ MonthOfDate(result[i].date) \in HurricaneSeason

\* A vendor with operational data gets a hurricane in the last month of the season.
C11_Witness ==
  /\ op = "generateWeatherEvents"
  /\ vendor.symbol = "LYB"
  /\ currentMonth = 11
  /\ Len(result) = 1
  /\ result[1].event_type = "hurricane"
  /\ result[1].date = <<currentYear, <<1, 1>>, <<1, 5>>>>

\* C12 (as stated): two runs of generateWeatherEvents for the same symbol,
\* sector, month and year return the same event list.  The function takes no
\* seed and draws from Math.random(), so nothing fixes the draws of a run.
C12_SameInputsSameEvents ==
  [][(op = "generateWeatherEvents" /\ op' = "generateWeatherEvents") => result' = result]_vars

\* The event kind a vulnerability kind produces.
EventTypeOf(vulnerability) ==
  CASE vulnerability = "hurricanes" -> "hurricane"
    [] vulnerability = "winter_storms" -> "winter_storm"
    [] OTHER -> vulnerability

HasProfile(symbol) == symbol \in DOMAIN COMPANY_OPERATIONAL_DATA

KindsOf(symbol) ==
  {COMPANY_OPERATIONAL_DATA[symbol].weatherVulnerabilities[i] :
     i \in 1..Len(COMPANY_OPERATIONAL_DATA[symbol].weatherVulnerabilities)}

\* C13: for a symbol with an operational profile the list holds at most one
\* event per vulnerability kind of the profile, so it is never longer than the
\* number of kinds; for a symbol without a profile it holds at most one event.
C13_AtMostOneEventPerKind ==
  op = "generateWeatherEvents" =>
    IF HasProfile(vendor.symbol)
    THEN /\ Len(result) <= Cardinality(KindsOf(vendor.symbol))
         /\ \A i \in 1..Len(result) :
              \E k \in KindsOf(vendor.symbol) : result[i].event_type = EventTypeOf(k)
         /\ \A i, j \in 1..Len(result) :
              result[i].event_type = result[j].event_type => i = j
    ELSE Len(result) <= 1

\* Three of DuPont's four kinds produce an event in one call.
C13_Witness ==
  /\ op = "generateWeatherEvents"
  /\ vendor.symbol = "DD"
  /\ Len(result) = 3
  /\ result[1].event_type = "hurricane"
  /\ result[2].event_type = "extreme_heat"
  /\ result[3].event_type = "flooding"

WinterWindow == {12, 1, 2, 3}

\* Every region of the event is one of the regions in the list.
RegionsWithin(event, primaryRegions) ==
  \A i \in 1..Len(event.affected_regions) :
    \E j \in 1..Len(primaryRegions) : event.affected_regions[i] = primaryRegions[j]

-----------------------------------------------------------------------------
(* calculateWeatherRisk.  baseCorrelation is in hundredths (0.72 is 72);   *)
(* correlation and seasonalVariance are exact fractions.                   *)

SECTOR_WEATHER_SENSITIVITY ==
  "TECHNOLOGY" :> [sensitivity |-> "medium", baseCorrelation |-> 45, seasonalVariance |-> 12]
  @@ "BASIC MATERIALS" :> [sensitivity |-> "high", baseCorrelation |-> 72, seasonalVariance |-> 25]
  @@ "ENERGY" :> [sensitivity |-> "high", baseCorrelation |-> 68, seasonalVariance |-> 22]
  @@ "UTILITIES" :> [sensitivity |-> "high", baseCorrelation |-> 75, seasonalVariance |-> 28]
  @@ "INDUSTRIALS" :> [sensitivity |-> "medium", baseCorrelation |-> 52, seasonalVariance |-> 15]
  @@ "CONSUMER DISCRETIONARY" :>
       [sensitivity |-> "low", baseCorrelation |-> 32, seasonalVariance |-> 8]
  @@ "CONSUMER STAPLES" :>
       [sensitivity |-> "medium", baseCorrelation |-> 48, seasonalVariance |-> 10]
  @@ "HEALTHCARE" :> [sensitivity |-> "low", baseCorrelation |-> 25, seasonalVariance |-> 6]
  @@ "FINANCIALS" :> [sensitivity |-> "low", baseCorrelation |-> 28, seasonalVariance |-> 7]
  @@ "REAL ESTATE" :> [sensitivity |-> "high", baseCorrelation |-> 65, seasonalVariance |-> 20]
  @@ "COMMUNICATION SERVICES" :>
       [sensitivity |-> "medium", baseCorrelation |-> 38, seasonalVariance |-> 9]

INDUSTRY_WEATHER_FACTORS ==
  "ELECTRONIC COMPONENTS" :> [weatherDependency |-> 65, supplyChainVulnerability |-> 70]
  @@ "SCIENTIFIC & TECHNICAL INSTRUMENTS" :>
       [weatherDependency |-> 55, supplyChainVulnerability |-> 60]
  @@ "CONSUMER ELECTRONICS" :> [weatherDependency |-> 45, supplyChainVulnerability |-> 65]
  @@ "SOFTWARE" :> [weatherDependency |-> 25, supplyChainVulnerability |-> 30]
  @@ "SPECIALTY CHEMICALS" :> [weatherDependency |-> 85, supplyChainVulnerability |-> 88]
  @@ "COMMODITY CHEMICALS" :> [weatherDependency |-> 90, supplyChainVulnerability |-> 92]
  @@ "AGRICULTURAL CHEMICALS" :> [weatherDependency |-> 95, supplyChainVulnerability |-> 85]
  @@ "OIL & GAS REFINING" :> [weatherDependency |-> 88, supplyChainVulnerability |-> 85]
  @@ "RENEWABLE ENERGY" :> [weatherDependency |-> 95, supplyChainVulnerability |-> 60]
  @@ "REIT - HOTEL & MOTEL" :> [weatherDependency |-> 75, supplyChainVulnerability |-> 40]
  @@ "REIT - RESIDENTIAL" :> [weatherDependency |-> 80, supplyChainVulnerability |-> 45]
  @@ "OTHER" :> [weatherDependency |-> 50, supplyChainVulnerability |-> 55]

\* Math.min(1.5, vendor.market_cap / 50000000000)
sizeRiskMultiplier(v) ==
  IF v.market_cap * 2 >= 3 * 500 THEN Frac(3, 2) ELSE Frac(v.market_cap, 500)

\* vendor.pe_ratio > 0 ? Math.min(1.3, vendor.pe_ratio / 30) : 1.0
valuationRiskMultiplier(v) ==
  IF v.pe_ratio > 0
  THEN (IF v.pe_ratio * 10 >= 13 * 300 THEN Frac(13, 10) ELSE Frac(v.pe_ratio, 300))
  ELSE Frac(1, 1)

\* Math.min(0.95, x)
MinCorrelation(x) == IF x.n * 20 >= 19 * x.d THEN Frac(19, 20) ELSE x

\* The correlation without the cap at 0.95.
adjustedCorrelationUncapped(v, sectorData) ==
  Frac(sectorData.baseCorrelation * sizeRiskMultiplier(v).n * valuationRiskMultiplier(v).n,
       100 * sizeRiskMultiplier(v).d * valuationRiskMultiplier(v).d)

adjustedCorrelation(v, sectorData) ==
  MinCorrelation(
    Frac(sectorData.baseCorrelation * sizeRiskMultiplier(v).n * valuationRiskMultiplier(v).n,
         100 * sizeRiskMultiplier(v).d * valuationRiskMultiplier(v).d))

RiskLevelOf(correlation) ==
  IF correlation.n * 10 > 7 * correlation.d THEN "high"
  ELSE IF correlation.n * 2 > correlation.d THEN "medium"
  ELSE "low"

\* 75 + Math.floor((vendor.market_cap / 1000000000) * 0.3) + Math.floor(Math.random() * 15)
coverage(v, r) == 75 + ((v.market_cap * 3) \div 100) + FloorTimes(r, 15)

\* Math.floor(industryData.weatherDependency + (adjustedCorrelation * 20))
climateExposure(industryData, correlation) ==
  industryData.weatherDependency + ((correlation.n * 20) \div correlation.d)

Min(a, b) == IF a <= b THEN a ELSE b

LowRiskDefault ==
  [sensitivity |-> "low", correlation |-> Frac(1, 5), coverage |-> 75, riskLevel |-> "low"]

WeatherRisk(v, sectorData, industryData, correlation, r) ==
  [sensitivity |-> sectorData.sensitivity,
   correlation |-> correlation,
   coverage |-> Min(98, coverage(v, r)),
   riskLevel |-> RiskLevelOf(correlation),
   climateExposure |-> climateExposure(industryData, correlation),
   supplyChainVulnerability |-> industryData.supplyChainVulnerability,
   seasonalVariance |-> Frac(sectorData.seasonalVariance * sizeRiskMultiplier(v).n,
                             sizeRiskMultiplier(v).d)]

calculateWeatherRisk(v, sector, industry, rnd) ==
  IF sector \notin DOMAIN SECTOR_WEATHER_SENSITIVITY
     \/ industry \notin DOMAIN INDUSTRY_WEATHER_FACTORS
  THEN LowRiskDefault
  ELSE WeatherRisk(v, SECTOR_WEATHER_SENSITIVITY[sector], INDUSTRY_WEATHER_FACTORS[industry],
                   adjustedCorrelation(v, SECTOR_WEATHER_SENSITIVITY[sector]), rnd[1])

\* The jitter drawn once the sector is known, before the industry is tested.
WeatherRiskDrawsSectorOnly(sector, industry) ==
  IF sector \notin DOMAIN SECTOR_WEATHER_SENSITIVITY THEN 0 ELSE 1

\* Math.random() calls made by calculateWeatherRisk.
WeatherRiskDraws(sector, industry) ==
  IF sector \notin DOMAIN SECTOR_WEATHER_SENSITIVITY
     \/ industry \notin DOMAIN INDUSTRY_WEATHER_FACTORS
  THEN 0 ELSE 1

(* The weather panel asks for one vendor's risk profile. *)

\* Market caps sampled for the risk profile: the scorers' grid and the two
\* caps where the size multiplier is 1 and where it reaches 1.5.
RiskCapValues == CapValues \cup {500, 750}

\* P/E sampled for the risk profile: the scorers' grid and the two ratios where
\* the valuation multiplier is 1 and where it reaches 1.3.
RiskPeValues == PeValues \cup {300, 390}

RiskInit ==
  /\ vendor \in [symbol : {"ACME"}, name : {"Acme Holdings"}, market_cap : RiskCapValues,
                 pe_ratio : RiskPeValues, ebitda : {0}]
  /\ sectorTag \in DOMAIN SECTOR_WEATHER_SENSITIVITY \cup {"UNKNOWN"}
  /\ industryTag \in DOMAIN INDUSTRY_WEATHER_FACTORS \cup {"UNKNOWN"}
  /\ currentMonth = 1
  /\ currentYear \in Years
  /\ vendors = << >>
  /\ op = "none"
  /\ result = NoResult
  /\ draws = 0
  /\ DataLayerAtRest

CallCalculateWeatherRisk ==
  \E rnd \in [1..WeatherRiskDraws(sectorTag, industryTag) -> RandomValues] :
    /\ op' = "calculateWeatherRisk"
    /\ result' = calculateWeatherRisk(vendor, sectorTag, industryTag, rnd)
    /\ draws' = Len(rnd)
    /\ UNCHANGED <<inputs, dataLayer>>

RiskNext == CallCalculateWeatherRisk

RiskSpec == RiskInit /\ [][RiskNext]_vars

-----------------------------------------------------------------------------
(* Weather risk *)

Recognized ==
  /\ sectorTag \in DOMAIN SECTOR_WEATHER_SENSITIVITY
  /\ industryTag \in DOMAIN INDUSTRY_WEATHER_FACTORS

C16_CorrelationCoverageAndTier ==
  (op = "calculateWeatherRisk" /\ Recognized) =>
    /\ result.correlation.d > 0
    /\ result.correlation.n >= 0
    /\ result.correlation.n * 20 <= 19 * result.correlation.d
    /\ result.coverage <= 98
    /\ (result.riskLevel = "high") <=> (result.correlation.n * 10 > 7 * result.correlation.d)
    /\ (result.riskLevel = "medium") <=>
         (/\ result.correlation.n * 2 > result.correlation.d
          /\ result.correlation.n * 10 <= 7 * result.correlation.d)
    /\ result.riskLevel \in {"high", "medium", "low"}

\* Both caps bite: the product 0.75 * 1.5 * 1.3 is cut to 0.95 and the coverage
\* 75 + 30 + 14 is cut to 98.
C16_Witness ==
  /\ op = "calculateWeatherRisk"
  /\ sectorTag = "UTILITIES"
  /\ industryTag = "OTHER"
  /\ vendor.market_cap = MaxCap
  /\ vendor.pe_ratio = MaxPe
  /\ draws = 1
  /\ result.correlation = [n |-> 19, d |-> 20]
  /\ result.coverage = 98
  /\ result.riskLevel = "high"

\* C17 (as stated): the climate-exposure score stays within 0..100 for every
\* recognized sector/industry pair and every vendor.
C17_ClimateExposureInRange ==
  (op = "calculateWeatherRisk" /\ Recognized) =>
    (result.climateExposure >= 0 /\ result.climateExposure <= 100)

-----------------------------------------------------------------------------
(* generateDynamicInsights and generateClimateScenarios.                   *)
(*                                                                         *)
(* financial_impact and expected_impact are in thousands of USD and hold   *)
(* the value of the source's expression over the reals: every product      *)
(* below is a whole number of thousands when market caps are multiples of  *)
(* $100M.  (The double result can fall one dollar short of it, as in       *)
(* Math.floor(38.2e9 * 0.01 * 1.4); no such case occurs in the scenario    *)
(* impacts of the sampled collections.)  A title or description is the     *)
(* sequence of the parts its template joins; fixed prose is shortened.     *)

ChemicalSymbols == {"DD", "CE", "LYB"}

TechSymbols == {"TEL", "ST"}

\* vendors.filter(v => list.includes(v.symbol))
FilterBySymbol(vs, list) == SelectSeq(vs, LAMBDA v : v.symbol \in list)

\* vendors.filter(v => !['DD', 'CE', 'LYB', 'TEL', 'ST'].includes(v.symbol))
FilterOther(vs) == SelectSeq(vs, LAMBDA v : v.symbol \notin ChemicalSymbols \cup TechSymbols)

\* vs.reduce((prev, current) => prev.market_cap > current.market_cap ? prev : current),
\* over the first i elements of a non-empty list.
RECURSIVE LargestOf(_, _)
LargestOf(vs, i) ==
  IF i = 1 THEN vs[1]
  ELSE IF LargestOf(vs, i - 1).market_cap > vs[i].market_cap THEN LargestOf(vs, i - 1)
  ELSE vs[i]

\* vs.reduce((sum, v) => sum + v.market_cap, 0), in $100M.
RECURSIVE SumMarketCap(_)
SumMarketCap(vs) == IF vs = << >> THEN 0 ELSE vs[1].market_cap + SumMarketCap(Tail(vs))

getSeason(month) ==
  IF month >= 3 /\ month <= 5 THEN "spring"
  ELSE IF month >= 6 /\ month <= 8 THEN "summer"
  ELSE IF month >= 9 /\ month <= 11 THEN "autumn"
  ELSE "winter"

\* s.charAt(0).toUpperCase() + s.slice(1), for the words the templates use.
Capitalize(s) ==
  CASE s = "severe" -> "Severe"
    [] s = "elevated" -> "Elevated"
    [] s = "summer cooling" -> "Summer cooling"
    [] s = "winter heating" -> "Winter heating"

Insight(type, title, description, impact, confidence, advantage) ==
  [insight_type |-> type, title |-> title, description |-> description,
   financial_impact |-> impact, confidence_score |-> confidence,
   windborne_advantage |-> advantage]

HurricaneRiskLevel(month) == IF month >= 8 /\ month <= 10 THEN "severe" ELSE "elevated"

HurricaneInsight(largestChemical, riskLevel) ==
  Insight("risk",
    <<largestChemical.name, ": ", Capitalize(riskLevel), " Hurricane Season Risk">>,
    <<IF riskLevel = "severe" THEN "42%" ELSE "28%", " above-normal hurricane activity. ",
      largestChemical.symbol, "'s Gulf Coast operations face heightened disruption risk">>,
    \* Math.floor(-60000000 - (market_cap / 1000000000 * 3000000) * (severe ? 1.5 : 1.0))
    0 - 60000 - largestChemical.market_cap * (IF riskLevel = "severe" THEN 450 ELSE 300),
    IF riskLevel = "severe" THEN 89 ELSE 82,
    "96-hour advance warning")

EnergyPeriod(month) == IF month >= 7 /\ month <= 9 THEN "summer cooling" ELSE "winter heating"

EnergyInsight(chemicals, period) ==
  Insight("opportunity",
    <<"Chemical Operations: ", Capitalize(period), " Energy Optimization">>,
    <<"12-18% energy cost reduction opportunities through optimized ", period, " schedules">>,
    \* Math.floor(15000000 + (sum / 10000000000 * 5000000))
    15000 + SumMarketCap(chemicals) * 50,
    86,
    "facility-specific energy management")

generateChemicalInsights(chemicals, month) ==
  (IF month >= 6 /\ month <= 11
   THEN << HurricaneInsight(LargestOf(chemicals, Len(chemicals)), HurricaneRiskLevel(month)) >>
   ELSE << >>)
  \o
  (IF (month >= 7 /\ month <= 9) \/ month >= 12 \/ month <= 2
   THEN << EnergyInsight(chemicals, EnergyPeriod(month)) >>
   ELSE << >>)

\* Math.floor(75 + Math.random() * 20)
ResilienceScore(r) == 75 + FloorTimes(r, 20)

ResilienceInsight(largestTech, resilienceScore) ==
  Insight("trend",
    <<largestTech.name, ": Global Supply Chain Weather Adaptation">>,
    <<largestTech.symbol, "'s supply network demonstrates ", resilienceScore,
      "% weather resilience score, ",
      IF resilienceScore > 85 THEN "significantly outperforming" ELSE "matching",
      " semiconductor industry benchmarks">>,
    \* Math.floor(25000000 + (market_cap / 1000000000 * 750000))
    25000 + largestTech.market_cap * 75,
    88,
    "supply route weather intelligence")

FallLaunchInsight(techCompanies) ==
  Insight("opportunity",
    <<"Technology Sector: Fall Product Launch Weather Window">>,
    <<"optimal weather conditions for Q4 product launches">>,
    \* Math.floor(sum * 0.015)
    SumMarketCap(techCompanies) * 1500,
    83,
    "Predictive logistics modeling")

\* The tech insights with the resilience insight moved under the autumn test.
generateTechInsightsAutumnOnly(techCompanies, month, r) ==
  IF month >= 9 /\ month <= 11
  THEN << ResilienceInsight(LargestOf(techCompanies, Len(techCompanies)), ResilienceScore(r)),
          FallLaunchInsight(techCompanies) >>
  ELSE << >>

generateTechInsights(techCompanies, month, r) ==
  << ResilienceInsight(LargestOf(techCompanies, Len(techCompanies)), ResilienceScore(r)) >>
  \o
  (IF month >= 9 /\ month <= 11 THEN << FallLaunchInsight(techCompanies) >> ELSE << >>)

correlationBase(vs) ==
  45 + (IF FilterBySymbol(vs, ChemicalSymbols) # << >> THEN 25 ELSE 0)
     + (IF FilterBySymbol(vs, TechSymbols) # << >> THEN 15 ELSE 0)

\* Math.floor(correlationBase + (Math.random() * 15))
weatherCorrelation(vs, r) == correlationBase(vs) + FloorTimes(r, 15)

PortfolioInsight(totalMarketCap, correlation) ==
  Insight("opportunity",
    <<"Portfolio Weather Risk Diversification">>,
    <<"Your current vendor mix shows ", correlation, "% weather correlation. ",
      IF correlation > 70 THEN "Strategic diversification could reduce portfolio volatility"
      ELSE "Well-diversified weather exposure provides natural hedging benefits">>,
    \* Math.floor(totalMarketCap * (weatherCorrelation > 70 ? 0.025 : 0.015))
    totalMarketCap * (IF correlation > 70 THEN 2500 ELSE 1500),
    85,
    "precise correlation analysis")

generatePortfolioInsights(vs, r) ==
  << PortfolioInsight(SumMarketCap(vs), weatherCorrelation(vs, r)) >>

\* title, description and multiplier (in tenths) of a season's opportunity.
seasonalOpportunities ==
  [ spring |-> [title |-> "Spring Agricultural Demand Surge",
                description |-> "Chemical fertilizer and agricultural equipment demand peaks",
                multiplier |-> 12],
    summer |-> [title |-> "Peak Energy Demand Management",
                description |-> "Extreme heat drives energy consumption",
                multiplier |-> 14],
    autumn |-> [title |-> "Harvest Season Supply Chain Optimization",
                description |-> "Agricultural chemical distribution and technology deployment",
                multiplier |-> 11],
    winter |-> [title |-> "Cold Weather Infrastructure Resilience",
                description |-> "Winter weather tests reveal supply chain vulnerabilities",
                multiplier |-> 13] ]

SeasonalInsight(opportunity, totalValue, r) ==
  Insight("trend",
    <<opportunity.title>>,
    \* Math.floor(8 + Math.random() * 12)
    <<opportunity.description, ". WindBorne seasonal analytics indicate ",
      8 + FloorTimes(r, 12), "% revenue optimization potential">>,
    \* Math.floor(totalValue * 0.01 * opportunity.multiplier)
    totalValue * 100 * opportunity.multiplier,
    81,
    "60-90 day operational planning")

generateSeasonalInsights(vs, season, r) ==
  << SeasonalInsight(seasonalOpportunities[season], SumMarketCap(vs), r) >>

\* Math.random() calls generateDynamicInsights makes before the portfolio
\* insights and before the seasonal insights.
DrawsBeforePortfolio(vs) == IF FilterBySymbol(vs, TechSymbols) # << >> THEN 1 ELSE 0

DrawsBeforeSeasonal(vs) == DrawsBeforePortfolio(vs) + (IF Len(vs) > 1 THEN 1 ELSE 0)

generateDynamicInsights(vs, month, rnd) ==
  (IF FilterBySymbol(vs, ChemicalSymbols) # << >>
   THEN generateChemicalInsights(FilterBySymbol(vs, ChemicalSymbols), month)
   ELSE << >>)
  \o
  (IF FilterBySymbol(vs, TechSymbols) # << >>
   THEN generateTechInsights(FilterBySymbol(vs, TechSymbols), month, rnd[1])
   ELSE << >>)
  \o
  (IF Len(vs) > 1
   THEN generatePortfolioInsights(vs, rnd[DrawsBeforePortfolio(vs) + 1])
   ELSE << >>)
  \o
  generateSeasonalInsights(vs, getSeason(month), rnd[DrawsBeforeSeasonal(vs) + 1])

\* Math.random() calls made by generateDynamicInsights.
DynamicInsightDraws(vs) == DrawsBeforeSeasonal(vs) + 1

ClimateScenario(name, probability, timeframe, impact, strategies) ==
  [scenario_name |-> name, probability |-> probability, timeframe |-> timeframe,
   expected_impact |-> impact, mitigation_strategies |-> strategies]

\* The scenarios on the value of the listed symbols' vendors alone.
ScenariosOn(hasChemicals, hasTech, chemicalValue, techValue) ==
  (IF hasChemicals
   THEN << ClimateScenario("Gulf Coast Hurricane Cluster", 65, "1_year",
             0 - chemicalValue * 3000,
             <<"Diversify chemical supply sources", "hurricane-resistant facility upgrades",
               "dynamic inventory management", "alternative production capacity">>),
           ClimateScenario("Extreme Heat Wave Impact", 78, "3_months",
             0 - (chemicalValue * 1500),
             <<"Upgrade cooling systems", "heat-resilient supply chain routing",
               "energy cost hedging">>) >>
   ELSE << >>)
  \o
  (IF hasTech
   THEN << ClimateScenario("Winter Infrastructure Stress", 45, "3_months",
             0 - (techValue * 800),
             <<"Strengthen power grid backup systems", "cold-weather supply chain protocols",
               "weather-resistant manufacturing equipment">>) >>
   ELSE << >>)

\* Each scenario on the value of the vendors that triggered it.
generateClimateScenariosPerBucket(vs) ==
  ScenariosOn(FilterBySymbol(vs, ChemicalSymbols) # << >>,
              FilterBySymbol(vs, TechSymbols) # << >>,
              SumMarketCap(FilterBySymbol(vs, ChemicalSymbols)),
              SumMarketCap(FilterBySymbol(vs, TechSymbols)))

\* expected_impact: Math.floor(-totalValue * 0.03), * 0.015, * 0.008.
generateClimateScenarios(vs) ==
  ScenariosOn(\E i \in 1..Len(vs) : vs[i].symbol \in ChemicalSymbols,
              \E i \in 1..Len(vs) : vs[i].symbol \in TechSymbols,
              SumMarketCap(vs),
              SumMarketCap(vs))

(* The weather panel holds a collection of vendors, no symbol twice (the   *)
(* dashboard adds a ticker only when it is not yet active), and asks for   *)
(* its insights and scenarios.                                             *)

\* The largest collection sampled.
MaxVendors == 3

VendorPool == {mockVendorOverviews[i] : i \in 1..Len(mockVendorOverviews)} \cup {UnknownVendor}

Collections ==
  {vs \in UNION {[1..n -> VendorPool] : n \in 0..MaxVendors} :
     \A i, j \in 1..Len(vs) : vs[i].symbol = vs[j].symbol => i = j}

InsightInit ==
  /\ vendors \in Collections
  /\ vendor = UnknownVendor
  /\ sectorTag = "UNKNOWN"
  /\ industryTag = "UNKNOWN"
  /\ currentMonth \in 1..12
  /\ currentYear \in Years
  /\ op = "none"
  /\ result = NoResult
  /\ draws = 0
  /\ DataLayerAtRest

CallGenerateDynamicInsights ==
  \E rnd \in [1..DynamicInsightDraws(vendors) -> RandomValues] :
    /\ op' = "generateDynamicInsights"
    /\ result' = generateDynamicInsights(vendors, currentMonth, rnd)
    /\ draws' = Len(rnd)
    /\ UNCHANGED <<inputs, dataLayer>>

\* vendors.sort(..) orders the caller's array in place, largest cap first.
SortedByMarketCap(vs) ==
  CHOOSE s \in [1..Len(vs) -> {vs[i] : i \in 1..Len(vs)}] :
    /\ \A i, j \in 1..Len(vs) : s[i] = s[j] => i = j
    /\ \A i \in 1..Len(vs) - 1 : s[i].market_cap >= s[i + 1].market_cap

\* A plausible slip: the largest company found by sorting the argument
\* instead of reducing over it.
CallGenerateClimateScenariosSortingInPlace ==
  /\ op' = "generateClimateScenarios"
  /\ result' = generateClimateScenarios(vendors)
  /\ draws' = 0
  /\ vendors' = SortedByMarketCap(vendors)
  /\ UNCHANGED <<vendor, sectorTag, industryTag, currentMonth, currentYear, dataLayer>>

CallGenerateClimateScenarios ==
  /\ op' = "generateClimateScenarios"
  /\ result' = generateClimateScenarios(vendors)
  /\ draws' = 0
  /\ UNCHANGED <<inputs, dataLayer>>

InsightNext ==
  \/ CallGenerateDynamicInsights
  \/ CallGenerateClimateScenarios

InsightSpec == InsightInit /\ [][InsightNext]_vars

-----------------------------------------------------------------------------
(* Insights and scenarios *)

\* C18 (as stated): for a fixed vendor collection and month,
\* generateDynamicInsights and generateClimateScenarios return the same output
\* on every call (randomness being confined to the event simulator and the
\* risk calculator).
C18_InsightsAndScenariosRepeat ==
  [][(op \in {"generateDynamicInsights", "generateClimateScenarios"} /\ op' = op)
       => result' = result]_vars

LastPart(title) == title[Len(title)]

\* The generator an insight comes from, read off its title.
IsChemicalInsight(x) == LastPart(x.title) \in {" Hurricane Season Risk", " Energy Optimization"}

IsTechInsight(x) ==
  LastPart(x.title) \in {": Global Supply Chain Weather Adaptation",
                         "Technology Sector: Fall Product Launch Weather Window"}

IsPortfolioInsight(x) == LastPart(x.title) = "Portfolio Weather Risk Diversification"

IsSeasonalInsight(x) ==
  LastPart(x.title) \in {seasonalOpportunities[s].title : s \in DOMAIN seasonalOpportunities}

IsOtherBucketInsight(x) ==
  ~(IsChemicalInsight(x) \/ IsTechInsight(x) \/ IsPortfolioInsight(x) \/ IsSeasonalInsight(x))

Some(P(_)) == \E i \in 1..Len(result) : P(result[i])

HasChemicals == FilterBySymbol(vendors, ChemicalSymbols) # << >>

HasTech == FilterBySymbol(vendors, TechSymbols) # << >>

HasOther == FilterOther(vendors) # << >>

\* C19 (as stated): in every month, each non-empty bucket (chemicals, tech,
\* other) has at least one insight derived from it in the output, next to the
\* insights for the full collection.
C19_EveryNonEmptyBucketHasAnInsight ==
  op = "generateDynamicInsights" =>
    /\ HasChemicals => Some(IsChemicalInsight)
    /\ HasTech => Some(IsTechInsight)
    /\ HasOther => Some(IsOtherBucketInsight)
    /\ Some(IsSeasonalInsight) \/ Some(IsPortfolioInsight)

\* C19 (amended): the tech bucket has an insight in the output exactly when it
\* is non-empty; the chemicals bucket has one exactly when it is non-empty and
\* the month is not 3, 4 or 5; no insight is derived from the other bucket; the
\* seasonal insight for the full collection is always there and the portfolio
\* insight exactly when the collection holds more than one vendor.
C19_InsightsPerBucketAndMonth ==
  op = "generateDynamicInsights" =>
    /\ Some(IsTechInsight) <=> HasTech
    /\ Some(IsChemicalInsight) <=> (HasChemicals /\ currentMonth \notin {3, 4, 5})
    /\ ~Some(IsOtherBucketInsight)
    /\ Some(IsSeasonalInsight)
    /\ Some(IsPortfolioInsight) <=> (Len(vendors) > 1)

\* In April a chemical, a tech and an unknown vendor get the tech, portfolio and
\* seasonal insights and nothing for the chemicals or the unknown vendor.
C19_Witness ==
  /\ op = "generateDynamicInsights"
  /\ currentMonth = 4
  /\ HasChemicals /\ HasTech /\ HasOther
  /\ Len(result) = 3
  /\ IsTechInsight(result[1])
  /\ IsPortfolioInsight(result[2])
  /\ IsSeasonalInsight(result[3])

\* The share of market value a scenario puts at risk, in thousands of USD per
\* $100M (3%, 1.5%, 0.8%).
ScenarioShare(name) ==
  CASE name = "Gulf Coast Hurricane Cluster" -> 3000
    [] name = "Extreme Heat Wave Impact" -> 1500
    [] name = "Winter Infrastructure Stress" -> 800

\* The bucket whose membership triggers a scenario.
ScenarioBucket(name) ==
  IF name = "Winter Infrastructure Stress" THEN FilterBySymbol(vendors, TechSymbols)
  ELSE FilterBySymbol(vendors, ChemicalSymbols)

ScenarioCount == (IF HasChemicals THEN 2 ELSE 0) + (IF HasTech THEN 1 ELSE 0)

\* C20 (as stated): generateClimateScenarios returns two scenarios exactly when
\* the chemicals bucket is non-empty and one exactly when the tech bucket is
\* non-empty (0 to 3 in all), and each scenario's expected impact is its fixed
\* fraction of the total market cap of the bucket that triggered it, so vendors
\* outside that bucket do not change it.
C20_ImpactIsFractionOfBucket ==
  op = "generateClimateScenarios" =>
    /\ Len(result) = ScenarioCount
    /\ \A i \in 1..Len(result) :
         0 - result[i].expected_impact
           = ScenarioShare(result[i].scenario_name)
               * SumMarketCap(ScenarioBucket(result[i].scenario_name))

\* C20 (amended): the count is as stated, and each scenario's expected impact is
\* minus its fixed fraction of the total market cap of the whole collection,
\* vendors outside the triggering bucket included.
C20_ImpactIsFractionOfCollection ==
  op = "generateClimateScenarios" =>
    /\ Len(result) = ScenarioCount
    /\ Len(result) <= 3
    /\ \A i \in 1..Len(result) :
         0 - result[i].expected_impact
           = ScenarioShare(result[i].scenario_name) * SumMarketCap(vendors)

\* Three scenarios for DuPont, TE Connectivity and an unknown vendor; the
\* unknown vendor's 2B is part of every impact.
C20_Witness ==
  /\ op = "generateClimateScenarios"
  /\ Len(vendors) = 3
  /\ HasChemicals /\ HasTech /\ HasOther
  /\ Len(result) = 3
  /\ result[3].scenario_name = "Winter Infrastructure Stress"
  /\ 0 - result[3].expected_impact > 800 * SumMarketCap(FilterBySymbol(vendors, TechSymbols))

-----------------------------------------------------------------------------
(* Divisors.  Each operator lists the divisors one call evaluates, in the  *)
(* order of the source; a vendor's market cap keeps its model unit (it is  *)
(* zero exactly when the field is zero), a constant keeps its value, a     *)
(* benchmark keeps its table value.                                        *)

\* getContractReadiness: the two conversions to billions, and the EBITDA
\* margin, whose quotient is guarded by ebitda > 0 only.
contractReadinessDivisors(v) ==
  {1000000000} \cup (IF v.ebitda > 0 THEN {v.market_cap} ELSE {})

\* getWeatherExposure: the conversion to billions.
weatherExposureDivisors(v) == {1000000000}

\* getSalesOpportunity: both scorers are called, then the two conversions.
salesOpportunityDivisors(v) ==
  contractReadinessDivisors(v) \cup weatherExposureDivisors(v) \cup {1000000000}

\* getFinancialAlerts: the EBITDA yield, guarded by ebitda > 0 and
\* market_cap > 0.
financialAlertsDivisors(v) ==
  IF v.ebitda > 0 /\ v.market_cap > 0 THEN {v.market_cap} ELSE {}

\* getPeerComparison: the conversion, the guarded margin, the three
\* benchmark quotients and the mean of three.
peerComparisonDivisors(v) ==
  LET industry == industryBenchmarks[getIndustryClassification(v)]
  IN {1000000000, 3, industry.avgMarketCap}
       \cup (IF v.ebitda > 0 /\ v.market_cap > 0 THEN {v.market_cap} ELSE {})
       \cup (IF v.pe_ratio > 0 THEN {industry.avgPeRatio} ELSE {})
       \cup (IF Positive(ebitdaMargin(v)) THEN {industry.avgEbitdaMargin} ELSE {})

\* The divisors of the call named by op.
DivisorsOf(name, v) ==
  CASE name = "getContractReadiness" -> contractReadinessDivisors(v)
    [] name = "getWeatherExposure"   -> weatherExposureDivisors(v)
    [] name = "getSalesOpportunity"  -> salesOpportunityDivisors(v)
    [] name = "getFinancialAlerts"   -> financialAlertsDivisors(v)
    [] name = "getPeerComparison"    -> peerComparisonDivisors(v)
    [] OTHER                         -> {}

\* C21: every scorer returns a defined value for every vendor record, market
\* cap 0 with positive or negative EBITDA, P/E 0 and unknown symbols
\* included: the benchmark key it looks up is in the table and no quotient
\* it evaluates has a zero divisor.
C21_DefinedValueNoMissingKeyNoZeroDivisor ==
  op # "none" =>
    /\ result # NoResult
    /\ getIndustryClassification(vendor) \in DOMAIN industryBenchmarks
    /\ 0 \notin DivisorsOf(op, vendor)

-----------------------------------------------------------------------------
(* The engine next to the mock-mode flag.  setMockMode (lib/api.ts) is the *)
(* only writer of the flag; the scorers, the simulators and the insight    *)
(* generators are called on a vendor record, its sector tags and a vendor  *)
(* collection while the flag is switched on and off between the calls.     *)
(* The benchmark, sector, industry and profile tables are module-level     *)
(* constants of the source and constant operators here.                    *)

\* setMockMode(enabled): useMockData = enabled, persisted under the key
\* 'windborne-mock-mode'.
SetMockMode ==
  \E enabled \in BOOLEAN :
    /\ useMockData' = enabled
    /\ UNCHANGED <<inputs, op, result, draws, activeTickers>>

\* The months the clock shows in this specification: one of the winter
\* window, one of the flood season and one of the hurricane season.
EngineMonths == {2, 5, 11}

\* The collections handed to the insight generators: none, one record, or
\* the whole mock table.
EngineCollections == {vs \in Collections : Len(vs) <= 1} \cup {mockVendorOverviews}

EngineInit ==
  /\ vendor \in VendorPool
  /\ sectorTag \in (IF vendor.symbol \in DOMAIN sectorMapping
                    THEN {SectorInfo(vendor.symbol).sector} ELSE EventSectors)
  /\ industryTag = SectorInfo(vendor.symbol).industry
  /\ currentMonth \in EngineMonths
  /\ currentYear \in Years
  /\ vendors \in EngineCollections
  /\ op = "none"
  /\ result = NoResult
  /\ draws = 0
  /\ useMockData \in BOOLEAN
  /\ activeTickers = initialTickers

EngineNext ==
  \/ SetMockMode
  \/ Next
  \/ EventNext
  \/ RiskNext
  \/ InsightNext

EngineSpec == EngineInit /\ [][EngineNext]_vars

\* The functions that draw no random number.
Deterministic ==
  {"getContractReadiness", "getWeatherExposure", "getSalesOpportunity",
   "getFinancialAlerts", "getPeerComparison", "generateClimateScenarios"}

\* The values a randomized function can return from the inputs alone.
RandomizedResults(name) ==
  CASE name = "generateWeatherEvents" ->
         {generateWeatherEvents(vendor.symbol, sectorTag, industryTag, currentMonth,
                                currentYear, rnd) :
            rnd \in [1..WeatherEventDraws(vendor.symbol, sectorTag, currentMonth)
                       -> RandomValues]}
    [] name = "calculateWeatherRisk" ->
         {calculateWeatherRisk(vendor, sectorTag, industryTag, rnd) :
            rnd \in [1..WeatherRiskDraws(sectorTag, industryTag) -> RandomValues]}
    [] name = "generateDynamicInsights" ->
         {generateDynamicInsights(vendors, currentMonth, rnd) :
            rnd \in [1..DynamicInsightDraws(vendors) -> RandomValues]}
    [] OTHER -> {}

\* C22: no engine call writes its vendor record, its vendor collection, its
\* tags or the mock-mode flag (only setMockMode changes the flag, and it
\* changes nothing else); and no result depends on the flag: a deterministic
\* function called again returns what it returned before, whatever was done
\* to the flag in between, and a randomized function returns one of the
\* values its inputs allow.
C22_EngineWritesNothingAndIgnoresMockMode ==
  [][/\ inputs' = inputs
     /\ activeTickers' = activeTickers
     /\ useMockData' # useMockData => <<op, result, draws>>' = <<op, result, draws>>
     /\ (op' = op /\ op \in Deterministic) => result' = result
     /\ (op' \notin Deterministic /\ op' # "none") => result' \in RandomizedResults(op')]_vars

\* The insight generator has answered for the whole mock table while mock
\* mode is on.
C22_Witness ==
  /\ useMockData
  /\ op = "generateDynamicInsights"
  /\ vendors = mockVendorOverviews
  /\ Len(result) >= 3

-----------------------------------------------------------------------------
(* The DuPont row *)

\* The mock record of DuPont: 35.6B market cap, P/E 14.9, 4.1B EBITDA.
DuPont == mockVendorOverviews[3]

\* C23: for the DuPont record getContractReadiness returns grade A- or A,
\* getWeatherExposure returns Medium, High or Critical, and
\* getSalesOpportunity returns Warm, Hot or Platinum.
C23_DuPontGradeTierAndPriority ==
  vendor = DuPont =>
    /\ op = "getContractReadiness" => result.score \in {"A-", "A"}
    /\ op = "getWeatherExposure" => result.level \in {"Medium", "High", "Critical"}
    /\ op = "getSalesOpportunity" => result.priority \in {"Warm", "Hot", "Platinum"}

\* The sales scorer has answered for the DuPont record.
C23_Witness ==
  /\ vendor = DuPont
  /\ vendor.symbol = "DD"
  /\ op = "getSalesOpportunity"
  /\ result.priority \in {"Warm", "Hot", "Platinum"}
  /\ getContractReadiness(vendor).score = "A"
  /\ getWeatherExposure(vendor).level = "High"

-----------------------------------------------------------------------------
(* The priority order of the exposure rules *)

\* The rule names of the chain, in source order.
RuleNames ==
  <<"critical-dependency", "utility/energy", "aviation", "logistics/shipping",
    "construction", "chemicals/industrial", "retail/consumer", "insurance/property",
    "manufacturing", "technology/connectivity">>

\* A vendor of the given name whose ticker is in no rule.
Named(n) ==
  [symbol |-> "ACME", name |-> n, market_cap |-> 0, pe_ratio |-> 0, ebitda |-> 0]

\* The smallest rule index that matches the vendor of the row.
FirstMatching == CHOOSE i \in MatchingRules : \A j \in MatchingRules : i <= j

\* C24: when several rules match, the exposure is built on the points of the
\* first of them in the order 80, 75, 70, 60, 55, 50, 40, 45, 35, 25 (plus
\* the size and P/E bonuses), and each of the ten rules is the applied one
\* for some vendor name (a fact about the rule table, evaluated on the rows
\* of the plain Acme record).
C24_FirstMatchingRuleApplies ==
  /\ BaseRulePoints = <<80, 75, 70, 60, 55, 50, 40, 45, 35, 25>>
  /\ Len(RuleNames) = Len(BaseRulePoints)
  /\ (op = "getWeatherExposure" /\ MatchingRules # {}) =>
       result = LevelOfScore(BaseRulePoints[FirstMatching]
                             + ExposureSizeBonus(vendor) + ExposurePeBonus(vendor))
  /\ vendor = Named("Acme Holdings") =>
       \A i \in 1..Len(BaseRulePoints) :
         \E n \in Names : BaseComponent(Named(n)) = BaseRulePoints[i]

\* A name that matches the retail, insurance/property, manufacturing and
\* technology rules was scored on the retail rule alone.
C24_Witness ==
  /\ op = "getWeatherExposure"
  /\ vendor.name = "Retail Property Manufacturing Data"
  /\ toUpperCase(vendor.symbol) = "ACME"
  /\ MatchingRules = {7, 8, 9, 10}
  /\ vendor.market_cap = 0
  /\ vendor.pe_ratio = 0
  /\ result.level = "Medium"

-----------------------------------------------------------------------------
(* The opportunity score, term by term *)

\* The grade and the tier that getSalesOpportunity obtains for the row.
RowGradeValue == extractContractScore(getContractReadiness(vendor).score)

RowTier == getWeatherExposure(vendor).level

\* The four terms of the sum, in hundredths: tier points, 0.35 of the mapped
\* grade, deal-size bonus, urgency bonus.
TermsOfRow ==
  100 * (CASE RowTier = "Critical" -> 50
           [] RowTier = "High" -> 45
           [] RowTier = "Medium" -> 35
           [] RowTier = "Data Buyer" -> 30
           [] RowTier = "Indirect" -> 20
           [] RowTier = "Minimal" -> 10)
  + 35 * (CASE getContractReadiness(vendor).score = "A+" -> 95
            [] getContractReadiness(vendor).score = "A" -> 85
            [] getContractReadiness(vendor).score = "A-" -> 75
            [] getContractReadiness(vendor).score = "B+" -> 65
            [] getContractReadiness(vendor).score = "B" -> 55
            [] getContractReadiness(vendor).score = "B-" -> 45
            [] getContractReadiness(vendor).score = "C" -> 25)
  + 100 * DealSizeBonus(vendor)
  + 100 * (IF vendor.pe_ratio = 0 /\ vendor.ebitda < 0 THEN 5
           ELSE IF vendor.pe_ratio > 400 THEN 3 ELSE 0)

PerfectFit == RowTier = "Critical" /\ RowGradeValue >= 75

LargeSensitive == vendor.market_cap > 500 /\ RowTier \in {"High", "Critical"}

\* The final score in millionths: the sum times 1.15 and times 1.10 where
\* they apply.
FinalScoreOfRow ==
  TermsOfRow * (IF PerfectFit THEN 115 ELSE 100) * (IF LargeSensitive THEN 110 ELSE 100)

\* The band of a final score given in millionths.
BandOf(s) ==
  IF s >= 85 * 1000000 THEN "Platinum"
  ELSE IF s >= 75 * 1000000 THEN "Hot"
  ELSE IF s >= 60 * 1000000 THEN "Warm"
  ELSE IF s >= 45 * 1000000 THEN "Qualified"
  ELSE IF s >= 30 * 1000000 THEN "Nurture"
  ELSE IF s >= 20 * 1000000 THEN "Monitor"
  ELSE "Cold"

\* C25: the priority is the band of (tier points + 0.35 * mapped grade +
\* deal-size bonus + urgency bonus), multiplied by 1.15 exactly when the tier
\* is Critical and the mapped grade is at least 75 and by 1.10 exactly when
\* the market cap exceeds 50B and the tier is High or Critical, the grade and
\* the tier being those of the same vendor record.
C25_PriorityIsBandOfComposedScore ==
  op = "getSalesOpportunity" => result.priority = BandOf(FinalScoreOfRow)

\* A Critical, A- vendor above 50B: both multipliers compound and lift a sum
\* below 85 to Platinum.
C25_Witness ==
  /\ op = "getSalesOpportunity"
  /\ PerfectFit
  /\ LargeSensitive
  /\ RowGradeValue = 75
  /\ TermsOfRow < 8500
  /\ result.priority = "Platinum"

-----------------------------------------------------------------------------
(* Hurricane severity *)

PeakHurricaneMonths == {8, 9, 10}

\* The severity the profile branch gives a hurricane in the given month.
EscalatedSeverity(month) ==
  IF month \in PeakHurricaneMonths THEN "severe" ELSE "moderate"

\* C26 (as stated): every hurricane event, from a company profile or from the
\* sector fallback, is severe in months 8..10 and moderate in months 6, 7
\* and 11.
C26_HurricaneSeverityByMonth ==
  op = "generateWeatherEvents" =>
    \A i \in 1..Len(result) :
      result[i].event_type = "hurricane" =>
        result[i].severity = EscalatedSeverity(currentMonth)

\* C26 (amended): a hurricane event produced from a company profile is severe
\* in months 8..10 and moderate in months 6, 7 and 11; a hurricane event of
\* the sector fallback is severe in every month of the season.
C26_ProfileHurricaneSeverityByMonth ==
  op = "generateWeatherEvents" =>
    \A i \in 1..Len(result) :
      result[i].event_type = "hurricane" =>
        result[i].severity =
          (IF HasProfile(vendor.symbol) THEN EscalatedSeverity(currentMonth) ELSE "severe")

\* A profile-based hurricane in July is moderate.
C26_Witness ==
  /\ op = "generateWeatherEvents"
  /\ vendor.symbol = "CE"
  /\ currentMonth = 7
  /\ Len(result) >= 1
  /\ result[1].event_type = "hurricane"
  /\ result[1].severity = "moderate"

-----------------------------------------------------------------------------
(* How many alerts a vendor can get *)

\* The rules (1 negative EBITDA, 2 extreme P/E, 3 value opportunity, 4 small
\* cap, 5 large-cap stability, 6 high efficiency, 7 no P/E data) whose alert
\* is in the returned list.
RulesAlerted == {RuleOfAlert(result[i]) : i \in 1..Len(result)}

\* At most one rule of the set is among the alerted ones.
AtMostOneOf(rules) == Cardinality(RulesAlerted \cap rules) <= 1

\* C27: getFinancialAlerts never returns more than three alerts: at most one
\* of the three P/E rules fires, negative EBITDA excludes the value
\* opportunity, large-cap stability and high-efficiency rules, and the small
\* cap and large-cap rules exclude each other.
C27_AtMostThreeAlerts ==
  op = "getFinancialAlerts" =>
    /\ Len(result) <= 3
    /\ AtMostOneOf({2, 3, 7})
    /\ AtMostOneOf({4, 5})
    /\ 1 \in RulesAlerted => RulesAlerted \cap {3, 5, 6} = {}

\* Three alerts at the limit without the large-cap one: a small, cheap and
\* efficient vendor gets value opportunity, small cap and high efficiency.
C27_Witness ==
  /\ op = "getFinancialAlerts"
  /\ RulesAlerted = {3, 4, 6}
  /\ Len(result) = 3

-----------------------------------------------------------------------------
(* The ends of the priority scale *)

\* C28: Platinum is returned only for a vendor whose exposure tier is High or
\* Critical, so never for a tier of Medium or lower, and Cold is returned
\* only for a vendor whose tier is Minimal and whose grade is C.
C28_PlatinumNeedsHighExposureColdNeedsMinimalC ==
  op = "getSalesOpportunity" =>
    /\ result.priority = "Platinum" =>
         getWeatherExposure(vendor).level \in {"High", "Critical"}
    /\ getWeatherExposure(vendor).level \in {"Medium", "Data Buyer", "Indirect", "Minimal"} =>
         result.priority # "Platinum"
    /\ result.priority = "Cold" =>
         /\ getWeatherExposure(vendor).level = "Minimal"
         /\ getContractReadiness(vendor).score = "C"

\* The best a Medium vendor can do: grade A+, more than 100B and a P/E above
\* 40 give Hot, not Platinum.
C28_Witness ==
  /\ op = "getSalesOpportunity"
  /\ getWeatherExposure(vendor).level = "Medium"
  /\ getContractReadiness(vendor).score = "A+"
  /\ vendor.market_cap > 1000
  /\ vendor.pe_ratio > 400
  /\ result.priority = "Hot"

-----------------------------------------------------------------------------
(* Event dates *)

\* The day a date string carries (one or two digits, as written).
DayOfDate(date) ==
  IF Len(date[3]) = 1 THEN date[3][1] ELSE date[3][1] * 10 + date[3][2]

\* C29: every event returned by generateWeatherEvents, profile-based or
\* sector fallback, is dated in the current year and the current month, on a
\* day in 1..28.
C29_EventsDatedInCurrentMonth ==
  op = "generateWeatherEvents" =>
    \A i \in 1..Len(result) :
      /\ result[i].date[1] = currentYear
      /\ MonthOfDate(result[i].date) = currentMonth
      /\ DayOfDate(result[i].date) \in 1..28

-----------------------------------------------------------------------------
(* The data-fetch layer in front of the engine (lib/api.ts and the App     *)
(* component).  The dashboard keeps a list of active tickers and runs one  *)
(* overview query per ticker; each handler below ends with the re-render   *)
(* that runs the queries again.  In mock mode a query resolves at once     *)
(* from the mock table; in live mode the request leaves the program for    *)
(* the backend, which is not part of the repository, and the query is kept *)
(* without data.                                                           *)

\* The symbols mockSearchResults offers, whatever the keywords.
mockSearchResults == <<"AAPL", "MSFT", "GOOGL">>

\* mockVendorOverviews.find(v => v.symbol === ticker.toUpperCase())
FindOverview(ticker) ==
  {i \in 1..Len(mockVendorOverviews) : mockVendorOverviews[i].symbol = toUpperCase(ticker)}

\* vendorApi.getOverview(ticker) in mock mode: mockData || mockVendorOverviews[0].
getOverview(ticker) ==
  IF FindOverview(ticker) # {}
  THEN mockVendorOverviews[CHOOSE i \in FindOverview(ticker) :
                             \A j \in FindOverview(ticker) : i <= j]
  ELSE mockVendorOverviews[1]

\* A query that has no data.
NoData == [undefined |-> TRUE]

\* useQueries over the active tickers: the key carries the mode.
vendorQueries(tickers, mock) ==
  [i \in 1..Len(tickers) |->
     [queryKey |-> <<"vendorOverview", tickers[i], IF mock THEN "mock" ELSE "live">>,
      data |-> IF mock THEN getOverview(tickers[i]) ELSE NoData]]

\* vendorQueries.map(query => query.data).filter(valid)
RECURSIVE ValidData(_)
ValidData(queries) ==
  IF queries = << >> THEN << >>
  ELSE (IF Head(queries).data = NoData THEN << >> ELSE <<Head(queries).data>>)
       \o ValidData(Tail(queries))

\* The re-render after a handler: the queries run for the new tickers and
\* mode, and the rows are their valid data.
Render(name, tickers, mock) ==
  /\ op' = name
  /\ activeTickers' = tickers
  /\ useMockData' = mock
  /\ result' = vendorQueries(tickers, mock)
  /\ vendors' = ValidData(vendorQueries(tickers, mock))
  /\ draws' = 0
  /\ UNCHANGED <<vendor, sectorTag, industryTag, currentMonth, currentYear>>

\* The tickers a user adds: two of the mock search results, and a live search
\* result spelled in lower case.
TickerInputs == {mockSearchResults[1], mockSearchResults[2], "dd"}

\* addVendor(ticker)
AddVendor ==
  \E ticker \in TickerInputs :
    Render("addVendor",
           IF \E i \in 1..Len(activeTickers) : activeTickers[i] = toUpperCase(ticker)
           THEN activeTickers
           ELSE Append(activeTickers, toUpperCase(ticker)),
           useMockData)

\* prev.filter(t => t !== ticker)
Without(tickers, ticker) == SelectSeq(tickers, LAMBDA t : t # ticker)

\* removeVendor(ticker)
RemoveVendor ==
  \E i \in 1..Len(activeTickers) :
    Render("removeVendor", Without(activeTickers, activeTickers[i]), useMockData)

\* handleToggleMockMode: setMockMode(!isMockMode), then the query cache is
\* cleared and every query runs again.
HandleToggleMockMode == Render("handleToggleMockMode", activeTickers, ~useMockData)

FetchInit ==
  /\ useMockData \in BOOLEAN
  /\ activeTickers = initialTickers
  /\ op = "none"
  /\ result = vendorQueries(activeTickers, useMockData)
  /\ vendors = ValidData(result)
  /\ vendor = UnknownVendor
  /\ sectorTag = "UNKNOWN"
  /\ industryTag = "UNKNOWN"
  /\ currentMonth = 1
  /\ currentYear = 2025
  /\ draws = 0

FetchNext ==
  \/ AddVendor
  \/ RemoveVendor
  \/ HandleToggleMockMode

FetchSpec == FetchInit /\ [][FetchNext]_vars

\* C30: in mock mode every overview query resolves to a record whose symbol
\* is the upper-cased ticker it was asked for, so the rows of distinct active
\* tickers (tickers added from the mock search results included) never hold
\* two records with the same symbol.
C30_MockOverviewHasRequestedSymbol ==
  useMockData =>
    /\ \A i \in 1..Len(result) :
         result[i].data.symbol = toUpperCase(result[i].queryKey[2])
    /\ \A i, j \in 1..Len(vendors) : vendors[i].symbol = vendors[j].symbol => i = j

====
